---- MODULE Spec2Model ----
(***************************************************************************)
(* Capture / mix / deliver pipeline of the electron-app repository.        *)
(*                                                                         *)
(* Spec        : the native addon (SystemAudioCapture.mm, the source that  *)
(*               binding.gyp builds) with one SystemAudioCapture object    *)
(*               driven by JavaScript callers of its exported methods.     *)
(*               Three kinds of thread interleave: the JavaScript thread   *)
(*               with its event loop, the serial audio queue of the        *)
(*               capturer, and the completion handlers of the capture      *)
(*               frameworks.                                               *)
(* SpecObjects : the addon with several SystemAudioCapture objects, the    *)
(*               JavaScript thread and the completion handlers.            *)
(* SpecMain    : the IPC handlers of the main process (main.ts and its     *)
(*               compiled variant part_001) calling the addon as written.  *)
(* SpecRend    : the AudioRecorder component of the renderer (part_003 and *)
(*               AudioRecorder.tsx); the main process is its environment.  *)
(* SpecEncode  : stopRecording of the renderer from its chunk collection   *)
(*               on: the chunks are combined and encoded as WAV.           *)
(* SpecMixer   : the peak and ducking smoothing of an AudioMixer, pass      *)
(*               after pass.                                               *)
(* SpecDelay   : the delay line of an AudioMixer, sample after sample.     *)
(* SpecLocks   : one capturing session of the addon with every             *)
(*               @synchronized block on an accumulator entered and left    *)
(*               in steps of its own.                                      *)
(* SpecBlocks  : one capturing session of the addon, with any choice of    *)
(*               sources, and the blocks its sources deliver, blocks       *)
(*               longer than a frame among them; SpecBlocksFair adds that  *)
(*               the audio queue and the event loop keep running.          *)
(***************************************************************************)
EXTENDS Integers, Sequences, FiniteSets, TLC

\* ---------------------------------------------------------------------------
\* Bounds and program constants
\* ---------------------------------------------------------------------------

\* Number of startCapture calls that get past the argument check.
MaxStarts == 2

\* Number of raw blocks the capture sources deliver.
MaxBlocks == 2

\* 960 samples = 20 ms at 48 kHz (processCombinedAudioIfReady).
FRAME_SIZE == 960

\* sizeof(float)
SAMPLE_BYTES == 4

BUFFER_SIZE == FRAME_SIZE * SAMPLE_BYTES

\* Number of IPC requests the renderer sends to the main process.
MaxRequests == 2

\* Number of clicks on the record button.
MaxClicks == 4

\* Number of audio-data events the renderer receives.
MaxFrames == 2

\* Number of SystemAudioCapture objects JavaScript may construct.
MaxObjects == 2

\* Number of chunks in the collection stopRecording combines.
MaxEntries == 2

\* Number of system samples an AudioMixer is followed through, one by one.
MaxSamples == 8

Capturers == 1..MaxObjects

\* Values of options.sessionId.
SessionIds == 1..MaxStarts

Kinds == {"system", "mic"}

\* Byte lengths of the blocks a source delivers
\* (CMBlockBufferGetDataLength): half a frame, one frame, and a malformed
\* block, half a frame and half a sample.
BlockBytes ==
  {BUFFER_SIZE \div 2, BUFFER_SIZE, BUFFER_SIZE \div 2 + SAMPLE_BYTES \div 2}

Epochs == 1..MaxStarts

\* options object of a start request: {sessionId, system, mic}
Options == [sessionId : SessionIds, system : BOOLEAN, mic : BOOLEAN]

NoOptions == [sessionId |-> 0, system |-> FALSE, mic |-> FALSE]

VARIABLES
  cap,        \* cap[c]: the AudioCapturer owned by SystemAudioCapture object c
  src,        \* src[e][kind]: the capture source requested by start call e
  starts,     \* starts[e]: capturer and session id of start call e
  tsfn,       \* tsfn[e]: the ThreadSafeFunction created by start call e
  js,         \* the JavaScript thread of the main process
  audio,      \* audio[c]: the serial audioQueue of capturer c
  crashed,    \* the process died
  nStarts,
  nBlocks,
  main,       \* the main process: audioCapture, isCleaningUp, its IPC handlers
  rend,       \* the renderer: the AudioRecorder component
  mixerState  \* the instance variables of an AudioMixer

vars == <<cap, src, starts, tsfn, js, audio, crashed, nStarts, nBlocks,
          main, rend, mixerState>>

\* ---------------------------------------------------------------------------
\* Frame accumulators: NSMutableData, kept as runs <<epoch, bytes>> so that
\* the session a byte was captured in stays known.
\* ---------------------------------------------------------------------------

RECURSIVE BufLen(_)
BufLen(buf) ==
  IF buf = <<>> THEN 0 ELSE Head(buf)[2] + BufLen(Tail(buf))

\* appendBytes:length:
AppendBytes(buf, ep, n) ==
  IF buf # <<>> /\ buf[Len(buf)][1] = ep
  THEN [buf EXCEPT ![Len(buf)] = <<ep, buf[Len(buf)][2] + n>>]
  ELSE Append(buf, <<ep, n>>)

\* The sessions of the first n bytes.
RECURSIVE FrontEpochs(_, _)
FrontEpochs(buf, n) ==
  IF n <= 0 \/ buf = <<>> THEN {}
  ELSE {Head(buf)[1]} \cup FrontEpochs(Tail(buf), n - Head(buf)[2])

\* A removal that empties the accumulator.
RemoveFrontAll(buf, n) == <<>>

\* replaceBytesInRange:NSMakeRange(0, n) withBytes:NULL length:0
RECURSIVE RemoveFront(_, _)
RemoveFront(buf, n) ==
  IF n <= 0 \/ buf = <<>> THEN buf
  ELSE IF Head(buf)[2] <= n THEN RemoveFront(Tail(buf), n - Head(buf)[2])
  ELSE <<(<<Head(buf)[1], Head(buf)[2] - n>>)>> \o Tail(buf)

\* ---------------------------------------------------------------------------
\* Initial state
\* ---------------------------------------------------------------------------

\* AudioCapturer init
AudioCapturerInit ==
  [constructed |-> FALSE,
   isCapturing |-> FALSE,
   isStarting |-> FALSE,
   sessionId |-> -1,
   shouldCaptureMic |-> FALSE,
   shouldCaptureSystem |-> FALSE,
   systemStream |-> 0,
   micSession |-> 0,
   audioMixer |-> "nil",
   jsCallback |-> 0,
   epoch |-> 0,
   systemAudioBuffer |-> <<>>,
   micAudioBuffer |-> <<>>]

NoFrame == [eps |-> {}, garbage |-> FALSE, samples |-> 0, mixed |-> 0]

JsIdle ==
  [pc |-> "idle", op |-> "none", c |-> 0, e |-> 0, opts |-> NoOptions,
   nested |-> FALSE, frame |-> NoFrame, result |-> "none", held |-> <<>>]

AudioIdle == [pc |-> "idle", kind |-> "none", bytes |-> 0, ep |-> 0,
              mixer |-> "nil", raced |-> FALSE, held |-> <<>>]

\* The main process before any request: let audioCapture = null.
HandlerIdle ==
  [pc |-> "idle", options |-> NoOptions, error |-> "none", reply |-> "none"]

\* screen / mic: whether the permission was granted when requestPermissions
\* last finished.
MainInit(variant) ==
  [variant |-> variant, audioCapture |-> 0, isCleaningUp |-> FALSE,
   start |-> HandlerIdle, stop |-> HandlerIdle, requests |-> 0,
   screen |-> FALSE, mic |-> FALSE]

\* No main-process handler takes part.
NoMain == MainInit("none")

\* Nothing combined, nothing encoded yet.
NoCombined == [length |-> 0, offsets |-> <<>>]

NoWav == [size |-> 0, riff |-> <<0, 0, 0, 0>>, data |-> <<0, 0, 0, 0>>]

\* The AudioRecorder component after its first render: alert is the message
\* of the last alert() of stopRecording, outcome what the last stopRecording
\* found ("empty": no chunk, "saved": a recording was added), clicks the
\* number of clicks on the record button and startClicks those of them that
\* ran startRecording, frame the session id of the last audio-data event,
\* recordings the
\* length of the recordings list and kept its length when the last
\* stopRecording began. stop and stop2 are the positions of a stopRecording
\* call and of one begun while the first is under way, stopSession and
\* stop2Session the recordingSessionId.current each found when it began
\* (currentSessionId), published the one of the call that last added a
\* recording. The listener is the
\* function registered for "audio-data" with the values its closure
\* captured; AudioRecorder.tsx registers handleAudioData on mount.
NoListener == [on |-> FALSE, isRecording |-> FALSE, sessionId |-> 0]

RendInit(variant) ==
  [variant |-> variant,
   isRecording |-> FALSE, isProcessing |-> FALSE,
   next |-> [isRecording |-> FALSE, isProcessing |-> FALSE],
   recordingSessionId |-> 0,
   audioChunks |-> <<>>,
   listener |-> [NoListener EXCEPT !.on = (variant = "AudioRecorder.tsx")],
   start |-> "idle", stop |-> "idle", stop2 |-> "idle", setup |-> "idle",
   stopSession |-> 0, stop2Session |-> 0, published |-> -1,
   sent |-> <<>>, stops |-> 0, clicks |-> 0, startClicks |-> 0,
   frames |-> 0, frame |-> -1,
   alert |-> "none", outcome |-> "none", recordings |-> 0, kept |-> 0,
   entries |-> <<>>, combined |-> NoCombined, wav |-> NoWav]

\* No renderer takes part.
NoRend == RendInit("none")

\* No AudioMixer is looked into: the capturer's mixer is followed as
\* cap[c].audioMixer, present or nil.
NoMixer ==
  [delayBufferSize |-> 0, delayBufferPos |-> 0, delayBuffer |-> <<>>,
   lastSystemPeak |-> 0, micDuckingFactor |-> 0,
   systemBuffer |-> <<>>, delayedSystem |-> 0]

\* The addon before any object is constructed.
InitAddon ==
  /\ src = [e \in Epochs |-> [k \in Kinds |-> "none"]]
  /\ starts = [e \in Epochs |-> [c |-> 0, sessionId |-> 0]]
  /\ tsfn = [e \in Epochs |-> [state |-> "none", queue |-> <<>>]]
  /\ js = JsIdle
  /\ audio = [c \in Capturers |-> AudioIdle]
  /\ crashed = FALSE
  /\ nStarts = 0
  /\ nBlocks = 0
  /\ mixerState = NoMixer

\* SystemAudioCapture(const Napi::CallbackInfo&):
\* capturer = [[AudioCapturer alloc] init]
Constructed(c) ==
  [cap EXCEPT ![c] = [AudioCapturerInit EXCEPT !.constructed = TRUE]]

\* One SystemAudioCapture object has been constructed and is driven by
\* JavaScript callers of its two methods.
Init ==
  /\ InitAddon
  /\ cap = [c \in Capturers |->
             [AudioCapturerInit EXCEPT !.constructed = (c = 1)]]
  /\ main = NoMain
  /\ rend = NoRend

\* ---------------------------------------------------------------------------
\* JavaScript thread: calls into the addon
\* ---------------------------------------------------------------------------

\* A call of an exported method returns (or throws) to its JavaScript caller.
Return(outcome) ==
  js' = [JsIdle EXCEPT !.pc = "returned", !.op = js.op, !.c = js.c,
                       !.e = js.e, !.opts = js.opts, !.nested = js.nested,
                       !.result = outcome]

\* The caller goes on after the call and gives the thread back to the event
\* loop.
callerContinues ==
  /\ ~crashed
  /\ js.pc = "returned"
  /\ main.start.pc \notin {"native", "cleanup"} /\ main.stop.pc # "native"
  /\ js' = JsIdle
  /\ UNCHANGED <<cap, src, starts, tsfn, audio, crashed, nStarts, nBlocks>>
  /\ UNCHANGED <<main, rend, mixerState>>

\* A JavaScript caller constructs a further object: new SystemAudioCapture()
New(c) ==
  /\ ~crashed
  /\ js.pc = "idle"
  /\ ~cap[c].constructed
  /\ \A d \in Capturers : d < c => cap[d].constructed
  /\ cap' = Constructed(c)
  /\ UNCHANGED <<src, starts, tsfn, js, audio, crashed, nStarts, nBlocks>>
  /\ UNCHANGED <<main, rend, mixerState>>

\* The argument lists a caller passes to startCapture: the callback alone, or
\* the callback and an options object; callers number their requests
\* (recordingSessionId.current += 1).
ArgLists ==
  {<<"callback">>} \cup
  {<<"callback", o>> : o \in {p \in Options : p.sessionId = nStarts + 1}}

\* SystemAudioCapture::StartCapture and the entry of startCaptureWithOptions:
\* the argument check, a new ThreadSafeFunction stored in capturer.jsCallback,
\* then the isStarting check and, when capturing, the call of stopCapture.
StartCapture(c, info) ==
  /\ cap[c].constructed
  /\ IF Len(info) < 2
     THEN /\ js' = [JsIdle EXCEPT !.pc = "returned", !.op = "startCapture",
                                  !.c = c, !.result = "TypeError"]
          /\ UNCHANGED <<cap, starts, tsfn, nStarts>>
     ELSE /\ nStarts < MaxStarts
          /\ nStarts' = nStarts + 1
          /\ starts' = [starts EXCEPT ![nStarts + 1] =
                          [c |-> c, sessionId |-> info[2].sessionId]]
          /\ tsfn' = [tsfn EXCEPT ![nStarts + 1].state = "live"]
          /\ cap' = [cap EXCEPT ![c].jsCallback = nStarts + 1]
          /\ js' = [JsIdle EXCEPT
                      !.pc = IF cap[c].isStarting THEN "returned"
                             ELSE IF cap[c].isCapturing THEN "stop_check"
                             ELSE "start_options",
                      !.op = "startCapture", !.c = c, !.e = nStarts + 1,
                      !.opts = info[2],
                      !.nested = ~cap[c].isStarting /\ cap[c].isCapturing,
                      !.result = IF cap[c].isStarting THEN "undefined"
                                 ELSE "none"]
  /\ UNCHANGED <<src, audio, crashed, nBlocks>>

\* startCaptureWithOptions: isStarting = YES and the options are stored.
startCaptureWithOptions ==
  /\ ~crashed
  /\ js.pc = "start_options"
  /\ cap' = [cap EXCEPT ![js.c].shouldCaptureMic = js.opts.mic,
                        ![js.c].shouldCaptureSystem = js.opts.system,
                        ![js.c].sessionId = js.opts.sessionId,
                        ![js.c].epoch = js.e,
                        ![js.c].isStarting = TRUE]
  /\ js' = [js EXCEPT !.pc = "start_open"]
  /\ UNCHANGED <<src, starts, tsfn, audio, crashed, nStarts, nBlocks>>
  /\ UNCHANGED <<main, rend, mixerState>>

\* startCaptureWithOptions: a request without a source resets isStarting
\* and returns.
startCaptureNoSource ==
  /\ ~crashed
  /\ js.pc = "start_open"
  /\ ~js.opts.mic /\ ~js.opts.system
  /\ cap' = [cap EXCEPT ![js.c].isStarting = FALSE]
  /\ Return("undefined")
  /\ UNCHANGED <<src, starts, tsfn, audio, crashed, nStarts, nBlocks>>
  /\ UNCHANGED <<main, rend, mixerState>>

\* initializeMicCapture: micSession is created; startRunning is reached
\* unless the device input cannot be created.
initializeMicCapture(micOk) ==
  IF micOk THEN "running" ELSE "none"

\* startCaptureWithOptions: the mixer is created, isCapturing = YES, the
\* requested sources are initialised: the system source asynchronously
\* (initializeSystemCapture asks for the shareable content), the microphone
\* synchronously; isStarting = NO.
startCaptureOpen(micOk) ==
  /\ ~crashed
  /\ js.pc = "start_open"
  /\ js.opts.mic \/ js.opts.system
  /\ cap' = [cap EXCEPT ![js.c].audioMixer = "ready",
                        ![js.c].isCapturing = TRUE,
                        ![js.c].micSession =
                           IF js.opts.mic THEN js.e ELSE cap[js.c].micSession,
                        ![js.c].isStarting = FALSE]
  /\ src' = [src EXCEPT ![js.e]["system"] =
                          IF js.opts.system THEN "pending" ELSE "none",
                        ![js.e]["mic"] =
                          IF js.opts.mic THEN initializeMicCapture(micOk)
                          ELSE "none"]
  /\ Return("undefined")
  /\ UNCHANGED <<starts, tsfn, audio, crashed, nStarts, nBlocks>>
  /\ UNCHANGED <<main, rend, mixerState>>

\* SystemAudioCapture::StopCapture
StopCapture(c) ==
  /\ cap[c].constructed
  /\ js' = [JsIdle EXCEPT !.pc = "stop_check", !.op = "stopCapture", !.c = c]
  /\ UNCHANGED <<cap, src, starts, tsfn, audio, crashed, nStarts,
                 nBlocks>>

\* A JavaScript caller calls startCapture / stopCapture of an object.
callStartCapture(c, info) ==
  /\ ~crashed
  /\ js.pc = "idle"
  /\ StartCapture(c, info)
  /\ UNCHANGED <<main, rend, mixerState>>

callStopCapture(c) ==
  /\ ~crashed
  /\ js.pc = "idle"
  /\ StopCapture(c)
  /\ UNCHANGED <<main, rend, mixerState>>

\* Where stopCapture returns to: its JavaScript caller, or the start request
\* that stopped the previous session.
stopCaptureReturn ==
  IF js.op = "startCapture"
  THEN js' = [js EXCEPT !.pc = "start_options"]
  ELSE Return("undefined")

\* stopCapture without its isCapturing check: it always tears down.
stopCaptureAlways ==
  /\ ~crashed
  /\ js.pc = "stop_check"
  /\ cap' = [cap EXCEPT ![js.c].isCapturing = FALSE,
                        ![js.c].systemStream = 0,
                        ![js.c].micSession = 0]
  /\ js' = [js EXCEPT !.pc = "stop_wait"]
  /\ UNCHANGED <<src, starts, tsfn, audio, crashed, nStarts, nBlocks>>
  /\ UNCHANGED <<main, rend, mixerState>>

\* stopCapture: returns when not capturing; else isCapturing = NO, the system
\* stream and the microphone session are asked to stop and their references
\* are cleared.
stopCapture ==
  /\ ~crashed
  /\ js.pc = "stop_check"
  /\ IF ~cap[js.c].isCapturing
     THEN /\ stopCaptureReturn
          /\ UNCHANGED <<cap, src>>
     ELSE /\ cap' = [cap EXCEPT ![js.c].isCapturing = FALSE,
                                ![js.c].systemStream = 0,
                                ![js.c].micSession = 0]
          /\ src' = [e \in Epochs |->
                      [k \in Kinds |->
                        IF /\ src[e][k] \in {"running", "lost"}
                           /\ \/ k = "system" /\ cap[js.c].systemStream = e
                              \/ k = "mic" /\ cap[js.c].micSession = e
                        THEN "stopping"
                        ELSE src[e][k]]]
          /\ js' = [js EXCEPT !.pc = "stop_wait"]
  /\ UNCHANGED <<starts, tsfn, audio, crashed, nStarts, nBlocks>>
  /\ UNCHANGED <<main, rend, mixerState>>

\* stopCapture: dispatch_group_wait returns when the stream's completion
\* handler has left the group or when the 2 s timeout expires.
stopCaptureWait ==
  /\ ~crashed
  /\ js.pc = "stop_wait"
  /\ js' = [js EXCEPT !.pc = "stop_clear_system"]
  /\ UNCHANGED <<cap, src, starts, tsfn, audio, crashed, nStarts,
                 nBlocks>>
  /\ UNCHANGED <<main, rend, mixerState>>

\* The audio queue of c is inside the two @synchronized blocks of
\* processCombinedAudioIfReady.
HoldsBufferLocks(c) == audio[c].pc = "mixing"

\* stopCapture: [systemAudioBuffer setLength:0] under the buffer's lock.
stopCaptureClearSystem ==
  /\ ~crashed
  /\ js.pc = "stop_clear_system"
  /\ ~HoldsBufferLocks(js.c)
  /\ cap' = [cap EXCEPT ![js.c].systemAudioBuffer = <<>>]
  /\ js' = [js EXCEPT !.pc = "stop_clear_mic"]
  /\ UNCHANGED <<src, starts, tsfn, audio, crashed, nStarts, nBlocks>>
  /\ UNCHANGED <<main, rend, mixerState>>

\* stopCapture: [micAudioBuffer setLength:0] under the buffer's lock.
stopCaptureClearMic ==
  /\ ~crashed
  /\ js.pc = "stop_clear_mic"
  /\ ~HoldsBufferLocks(js.c)
  /\ cap' = [cap EXCEPT ![js.c].micAudioBuffer = <<>>]
  /\ js' = [js EXCEPT !.pc = "stop_mixer"]
  /\ UNCHANGED <<src, starts, tsfn, audio, crashed, nStarts, nBlocks>>
  /\ UNCHANGED <<main, rend, mixerState>>

\* stopCapture: [audioMixer cleanup] frees the delay buffer, audioMixer = nil.
\* No lock is held: a mixing pass that is using the mixer races with it.
stopCaptureMixer ==
  /\ ~crashed
  /\ js.pc = "stop_mixer"
  /\ cap' = [cap EXCEPT ![js.c].audioMixer = "nil"]
  /\ audio' = [audio EXCEPT ![js.c].raced =
                 \/ audio[js.c].raced
                 \/ audio[js.c].pc = "mixing" /\ audio[js.c].mixer = "ready"]
  /\ js' = [js EXCEPT !.pc = "stop_release"]
  /\ UNCHANGED <<src, starts, tsfn, crashed, nStarts, nBlocks>>
  /\ UNCHANGED <<main, rend, mixerState>>

\* ThreadSafeFunction::Release (napi_tsfn_release): the thread count drops
\* to zero; the queue stays and is drained by the event loop. A second
\* release of the same function is refused (napi_invalid_arg); a release
\* through a handle that was already finalized is a use after free.
Release(k, dies) ==
  /\ tsfn' = [tsfn EXCEPT ![k].state =
                            IF tsfn[k].state = "live" THEN "released"
                            ELSE tsfn[k].state]
  /\ crashed' = (tsfn[k].state = "closed" /\ dies)

\* stopCapture: if (self.jsCallback) self.jsCallback.Release(), then return.
stopCaptureRelease(dies) ==
  /\ ~crashed
  /\ js.pc = "stop_release"
  /\ dies => cap[js.c].jsCallback # 0 /\ tsfn[cap[js.c].jsCallback].state = "closed"
  /\ IF cap[js.c].jsCallback # 0
     THEN Release(cap[js.c].jsCallback, dies)
     ELSE UNCHANGED <<tsfn, crashed>>
  /\ stopCaptureReturn
  /\ UNCHANGED <<cap, src, starts, audio, nStarts, nBlocks>>
  /\ UNCHANGED <<main, rend, mixerState>>

\* ---------------------------------------------------------------------------
\* Completion handlers of the capture frameworks
\* ---------------------------------------------------------------------------

\* initializeSystemCapture, the completion handler of
\* getShareableContentWithCompletionHandler: without content it returns,
\* else self.systemStream is the new stream and its capture is started.
initializeSystemCapture(e, ok) ==
  /\ ~crashed
  /\ src[e]["system"] = "pending"
  /\ IF ok
     THEN /\ src' = [src EXCEPT ![e]["system"] = "running"]
          /\ cap' = [cap EXCEPT ![starts[e].c].systemStream = e]
     ELSE /\ src' = [src EXCEPT ![e]["system"] = "none"]
          /\ UNCHANGED cap
  /\ UNCHANGED <<starts, tsfn, js, audio, crashed, nStarts, nBlocks>>
  /\ UNCHANGED <<main, rend, mixerState>>

\* stopCaptureWithCompletionHandler's completion / [sessionToStop stopRunning]
\* on the global queue: the source has stopped delivering.
sourceStopped(e, k) ==
  /\ ~crashed
  /\ src[e][k] = "stopping"
  /\ src' = [src EXCEPT ![e][k] = "none"]
  /\ UNCHANGED <<cap, starts, tsfn, js, audio, crashed, nStarts,
                 nBlocks>>
  /\ UNCHANGED <<main, rend, mixerState>>

\* The session begun by start call e is capturing.
Capturing(e) ==
  /\ starts[e].c # 0
  /\ cap[starts[e].c].epoch = e
  /\ cap[starts[e].c].isCapturing

\* The microphone is lost during a session (the device is disconnected): the
\* AVCaptureSession delivers no further block. The capturer observes no
\* notification of the session, so none of its fields changes.
micDisconnected(e) ==
  /\ ~crashed
  /\ Capturing(e)
  /\ src[e]["mic"] = "running"
  /\ src' = [src EXCEPT ![e]["mic"] = "lost"]
  /\ UNCHANGED <<cap, starts, tsfn, js, audio, crashed, nStarts,
                 nBlocks>>
  /\ UNCHANGED <<main, rend, mixerState>>

\* ---------------------------------------------------------------------------
\* The serial audio queue of a capturer
\* ---------------------------------------------------------------------------

\* A source of capturer c that still delivers blocks of the given kind.
Delivering(c, k) ==
  \E e \in Epochs : starts[e].c = c /\ src[e][k] \in {"running", "stopping"}

\* stream:didOutputSampleBuffer:ofType: / captureOutput:didOutputSampleBuffer:
\* up to the copy of the block: it returns unless isCapturing.
didOutputSampleBuffer(c, k, n) ==
  /\ ~crashed
  /\ nBlocks < MaxBlocks
  /\ audio[c].pc = "idle"
  /\ Delivering(c, k)
  /\ cap[c].isCapturing
  /\ audio' = [audio EXCEPT ![c] = [AudioIdle EXCEPT !.pc = "append",
                                      !.kind = k, !.bytes = n,
                                      !.ep = cap[c].epoch]]
  /\ nBlocks' = nBlocks + 1
  /\ UNCHANGED <<cap, src, starts, tsfn, js, crashed, nStarts>>
  /\ UNCHANGED <<main, rend, mixerState>>

\* The callback appends the block to its accumulator under the buffer's lock.
appendBytes(c) ==
  /\ ~crashed
  /\ audio[c].pc = "append"
  /\ cap' = IF audio[c].kind = "system"
            THEN [cap EXCEPT ![c].systemAudioBuffer =
                    AppendBytes(cap[c].systemAudioBuffer, audio[c].ep, audio[c].bytes)]
            ELSE [cap EXCEPT ![c].micAudioBuffer =
                    AppendBytes(cap[c].micAudioBuffer, audio[c].ep, audio[c].bytes)]
  /\ audio' = [audio EXCEPT ![c].pc = "process"]
  /\ UNCHANGED <<src, starts, tsfn, js, crashed, nStarts, nBlocks>>
  /\ UNCHANGED <<main, rend, mixerState>>

\* A readiness condition that asks for some system audio only.
ReadyWithAnyAudio(c) ==
  /\ BufLen(cap[c].systemAudioBuffer) > 0
  /\ ~cap[c].shouldCaptureMic \/ BufLen(cap[c].micAudioBuffer) > 0

\* A pass that takes the microphone lock first.
LockOrderMicFirst == <<"mic", "system">>

\* processCombinedAudioIfReady: @synchronized (self.systemAudioBuffer), then,
\* inside it, @synchronized (self.micAudioBuffer).
LockOrder == <<"system", "mic">>

\* The readiness condition of processCombinedAudioIfReady.
Ready(c) ==
  /\ BufLen(cap[c].systemAudioBuffer) >= BUFFER_SIZE
  /\ ~cap[c].shouldCaptureMic \/ BufLen(cap[c].micAudioBuffer) >= BUFFER_SIZE

\* processCombinedAudioIfReady: both locks are taken and the readiness
\* condition is evaluated; when it holds the pass starts on self.audioMixer.
processCombinedAudioIfReady(c) ==
  /\ ~crashed
  /\ audio[c].pc = "process"
  /\ audio' = IF Ready(c)
              THEN [audio EXCEPT ![c].pc = "mixing",
                                 ![c].mixer = cap[c].audioMixer,
                                 ![c].held = LockOrder]
              ELSE [audio EXCEPT ![c] = AudioIdle]
  /\ UNCHANGED <<cap, src, starts, tsfn, js, crashed, nStarts,
                 nBlocks>>
  /\ UNCHANGED <<main, rend, mixerState>>

\* The samples of an accumulator a pass has for one frame.
FrontSamples(buf) ==
  (IF BufLen(buf) < BUFFER_SIZE THEN BufLen(buf) ELSE BUFFER_SIZE)
    \div SAMPLE_BYTES

\* The frame a pass produces: the sessions of the bytes it mixed; garbage
\* when no mixer wrote the output buffer; samples, the length of the PCM16
\* buffer handed over (Napi::Buffer<int16_t>::Copy(env, pcmBuffer, 960));
\* mixed, how many of them come from accumulated samples of every source
\* that is mixed.
MixedFrame(c, garbage) ==
  [eps |-> FrontEpochs(cap[c].systemAudioBuffer, BUFFER_SIZE) \cup
           (IF cap[c].shouldCaptureMic
            THEN FrontEpochs(cap[c].micAudioBuffer, BUFFER_SIZE) ELSE {}),
   garbage |-> garbage,
   samples |-> FRAME_SIZE,
   mixed |-> IF cap[c].shouldCaptureMic
                /\ FrontSamples(cap[c].micAudioBuffer)
                     < FrontSamples(cap[c].systemAudioBuffer)
             THEN FrontSamples(cap[c].micAudioBuffer)
             ELSE FrontSamples(cap[c].systemAudioBuffer)]

\* ThreadSafeFunction::BlockingCall with maxQueueSize 0: the frame is queued
\* without waiting; an empty function refuses it.
BlockingCall(k, frame) ==
  IF k # 0 /\ tsfn[k].state \in {"live", "released"}
  THEN tsfn' = [tsfn EXCEPT ![k].queue = Append(tsfn[k].queue, frame)]
  ELSE UNCHANGED tsfn

\* processCombinedAudioIfReady, the pass: mix, convert to PCM16, queue the
\* frame on self.jsCallback, remove the mixed bytes, release the locks.
\* A mixer freed during the pass, a callback that was finalized and a
\* microphone buffer shorter than a frame are undefined behaviour or raise:
\* the pass may kill the process (dies).
mixingPass(c, dies) ==
  /\ ~crashed
  /\ audio[c].pc = "mixing"
  /\ LET short == cap[c].shouldCaptureMic
                  /\ BufLen(cap[c].micAudioBuffer) < BUFFER_SIZE
         stale == cap[c].jsCallback # 0
                  /\ tsfn[cap[c].jsCallback].state = "closed"
         fatal == short \/ (dies /\ (audio[c].raced \/ stale))
     IN  /\ dies => (~short /\ (audio[c].raced \/ stale))
         /\ crashed' = fatal
         /\ IF fatal
            THEN UNCHANGED <<tsfn, cap>>
            ELSE /\ BlockingCall(cap[c].jsCallback,
                      MixedFrame(c, audio[c].mixer = "nil" \/ audio[c].raced))
                 /\ cap' = [cap EXCEPT
                      ![c].systemAudioBuffer =
                         RemoveFront(cap[c].systemAudioBuffer, BUFFER_SIZE),
                      ![c].micAudioBuffer =
                         IF cap[c].shouldCaptureMic
                         THEN RemoveFront(cap[c].micAudioBuffer, BUFFER_SIZE)
                         ELSE cap[c].micAudioBuffer]
  /\ audio' = [audio EXCEPT ![c] = AudioIdle]
  /\ UNCHANGED <<src, starts, js, nStarts, nBlocks>>
  /\ UNCHANGED <<main, rend, mixerState>>

\* ---------------------------------------------------------------------------
\* The event loop of the JavaScript thread
\* ---------------------------------------------------------------------------

\* The session id the callback of start call k puts on a frame:
\* sessionId: options.sessionId of the request that created the callback.
Tag(k) == starts[k].sessionId

\* The ThreadSafeFunction's dispatch on the event loop: the front frame is
\* passed to the JavaScript callback; a released function whose queue is
\* empty is finalized.
DispatchOne(k) ==
  /\ ~crashed
  /\ js.pc = "idle"
  /\ tsfn[k].state \in {"live", "released"}
  /\ tsfn[k].queue # <<>> \/ tsfn[k].state = "released"
  /\ IF tsfn[k].queue # <<>>
     THEN /\ js' = [JsIdle EXCEPT !.pc = "callback", !.op = "callback",
                                  !.e = k, !.frame = Head(tsfn[k].queue)]
          /\ tsfn' = [tsfn EXCEPT
               ![k].queue = Tail(tsfn[k].queue),
               ![k].state = IF Len(tsfn[k].queue) = 1 /\ tsfn[k].state = "released"
                            THEN "closed" ELSE tsfn[k].state]
     ELSE /\ tsfn' = [tsfn EXCEPT ![k].state = "closed"]
          /\ UNCHANGED js
  /\ UNCHANGED <<cap, src, starts, audio, crashed, nStarts, nBlocks>>
  /\ UNCHANGED <<main, rend, mixerState>>

\* The callback the start-audio-capture handler passed to startCapture:
\* mainWindow.webContents.send("audio-data", {buffer, format, sessionId}).
audioDataCallback ==
  /\ ~crashed
  /\ js.pc = "callback"
  /\ js' = JsIdle
  /\ UNCHANGED <<cap, src, starts, tsfn, audio, crashed, nStarts,
                 nBlocks>>
  /\ UNCHANGED <<main, rend, mixerState>>

\* ---------------------------------------------------------------------------
\* The main process: the IPC handlers of main.ts and of its compiled variant
\* part_001
\* ---------------------------------------------------------------------------

MainVariants == {"main.ts", "part_001"}

\* The object a "new SystemAudioCapture()" yields.
Fresh(c) ==
  /\ ~cap[c].constructed
  /\ \A d \in Capturers : d < c => cap[d].constructed

\* initAudioCapture: main.ts constructs an object if audioCapture is null,
\* part_001 constructs one on every call.
initAudioCapture(c) ==
  IF main.variant = "main.ts" /\ main.audioCapture # 0
  THEN c = main.audioCapture
  ELSE Fresh(c)

\* The handler's promise settles: the reply to the renderer's invoke.
Reply(m, who, reply) ==
  [m EXCEPT ![who] = [HandlerIdle EXCEPT !.reply = reply,
                                        !.options = m[who].options]]

\* stopExistingCapture (part_001) up to its call of stopCapture: it returns
\* at once without an object or during a cleanup; else isCleaningUp = true
\* and audioCapture.stopCapture() is called inside Promise.race.
stopExistingCapture(m, who, waiting, reply) ==
  IF m.audioCapture = 0 \/ m.isCleaningUp
  THEN /\ main' = Reply(m, who, reply)
       /\ js' = JsIdle
       /\ UNCHANGED <<cap, src, starts, tsfn, audio, crashed, nStarts, nBlocks>>
  ELSE /\ main' = [m EXCEPT !.isCleaningUp = TRUE, ![who].pc = waiting,
                            ![who].error = reply]
       /\ StopCapture(m.audioCapture)

\* ipcMain.handle("start-audio-capture") up to await requestPermissions()
startHandler(options) ==
  /\ ~crashed
  /\ js.pc = "idle"
  /\ main.start.pc = "idle"
  /\ main.requests < MaxRequests
  /\ main' = [main EXCEPT !.start = [HandlerIdle EXCEPT !.pc = "permissions",
                                                        !.options = options],
                          !.requests = main.requests + 1]
  /\ UNCHANGED <<cap, src, starts, tsfn, js, audio, crashed, nStarts, nBlocks,
                 rend, mixerState>>

\* What requestPermissions finds for the screen permission: the status is
\* "granted"; or the dialog is shown and the user cancels (it throws); or the
\* user opens the preferences and askForMediaAccess("screen") resolves, its
\* value being ignored, or rejects (it throws).
ScreenOutcomes == {"granted", "cancelled", "asked", "rejected"}

\* requestPermissions settles. It throws when the screen dialog is cancelled
\* or askForMediaAccess rejects, and the handler rethrows (part_001 first
\* awaits stopExistingCapture). Else it resolves, whatever
\* askForMediaAccess("microphone") answered, and initAudioCapture() runs.
requestPermissions(screen, mic, c) ==
  /\ ~crashed
  /\ js.pc = "idle"
  /\ main.start.pc = "permissions"
  /\ LET found == [main EXCEPT !.screen = (screen = "granted"), !.mic = mic]
     IN  IF screen \in {"granted", "asked"}
         THEN /\ initAudioCapture(c)
              /\ cap' = IF cap[c].constructed THEN cap ELSE Constructed(c)
              /\ main' = [found EXCEPT !.audioCapture = c, !.start.pc = "call"]
              /\ js' = [JsIdle EXCEPT !.pc = "handler"]
              /\ UNCHANGED <<src, starts, tsfn, audio, crashed, nStarts, nBlocks>>
         ELSE /\ c = 1
              /\ IF main.variant = "part_001"
                 THEN stopExistingCapture(found, "start", "cleanup", "denied")
                 ELSE /\ main' = Reply(found, "start", "denied")
                      /\ UNCHANGED <<cap, src, starts, tsfn, js, audio, crashed,
                                     nStarts, nBlocks>>
  /\ UNCHANGED <<rend, mixerState>>

\* audioCapture.startCapture((buffer, format) => {...}): the callback is
\* the only argument.
startHandlerCall ==
  /\ ~crashed
  /\ js.pc = "handler"
  /\ main.start.pc = "call"
  /\ StartCapture(main.audioCapture, <<"callback">>)
  /\ main' = [main EXCEPT !.start.pc = "native"]
  /\ UNCHANGED <<rend, mixerState>>

\* startCapture returns to the handler, or throws into its catch block:
\* main.ts rethrows, part_001 awaits stopExistingCapture and rethrows.
startHandlerReturn ==
  /\ ~crashed
  /\ js.pc = "returned"
  /\ main.start.pc = "native"
  /\ IF js.result = "undefined"
     THEN /\ main' = Reply(main, "start", "ok")
          /\ js' = JsIdle
          /\ UNCHANGED <<cap, src, starts, tsfn, audio, crashed, nStarts,
                         nBlocks>>
     ELSE IF main.variant = "part_001"
     THEN stopExistingCapture(main, "start", "cleanup", js.result)
     ELSE /\ main' = Reply(main, "start", js.result)
          /\ js' = JsIdle
          /\ UNCHANGED <<cap, src, starts, tsfn, audio, crashed, nStarts,
                         nBlocks>>
  /\ UNCHANGED <<rend, mixerState>>

\* ipcMain.handle("stop-audio-capture"): main.ts calls stopCapture if
\* audioCapture is set, part_001 awaits stopExistingCapture.
stopHandler ==
  /\ ~crashed
  /\ js.pc = "idle"
  /\ main.stop.pc = "idle"
  /\ main.requests < MaxRequests
  /\ LET counted == [main EXCEPT !.requests = main.requests + 1]
     IN  IF main.variant = "part_001"
         THEN IF main.audioCapture = 0 \/ main.isCleaningUp
              THEN /\ main' = Reply(counted, "stop", "ok")
                   /\ UNCHANGED <<cap, src, starts, tsfn, js, audio, crashed,
                                  nStarts, nBlocks>>
              ELSE /\ main' = [counted EXCEPT !.isCleaningUp = TRUE,
                                              !.stop.pc = "native",
                                              !.stop.error = "ok"]
                   /\ StopCapture(main.audioCapture)
         ELSE IF main.audioCapture = 0
              THEN /\ main' = Reply(counted, "stop", "ok")
                   /\ UNCHANGED <<cap, src, starts, tsfn, js, audio, crashed,
                                  nStarts, nBlocks>>
              ELSE /\ main' = [counted EXCEPT !.stop.pc = "native",
                                              !.stop.error = "ok"]
                   /\ StopCapture(main.audioCapture)
  /\ UNCHANGED <<rend, mixerState>>

\* stopCapture returns to its caller in the main process. main.ts:
\* audioCapture = null and the handler returns. part_001: Promise.race
\* settles with the call's value (the call is synchronous, its 1 s timer
\* cannot fire first) and the 100 ms timer is awaited.
stopCaptureReturned(who) ==
  /\ ~crashed
  /\ js.pc = "returned"
  /\ main[who].pc = IF who = "start" THEN "cleanup" ELSE "native"
  /\ js' = JsIdle
  /\ main' = IF main.variant = "part_001"
             THEN [main EXCEPT ![who].pc = "delay"]
             ELSE Reply([main EXCEPT !.audioCapture = 0], who, main[who].error)
  /\ UNCHANGED <<cap, src, starts, tsfn, audio, crashed, nStarts, nBlocks,
                 rend, mixerState>>

\* stopExistingCapture after the 100 ms timer: audioCapture = null,
\* isCleaningUp = false, and its caller goes on.
stopExistingCaptureDone(who) ==
  /\ ~crashed
  /\ js.pc = "idle"
  /\ main[who].pc = "delay"
  /\ main' = Reply([main EXCEPT !.audioCapture = 0, !.isCleaningUp = FALSE],
                   who, main[who].error)
  /\ UNCHANGED <<cap, src, starts, tsfn, js, audio, crashed, nStarts, nBlocks,
                 rend, mixerState>>

\* ---------------------------------------------------------------------------
\* The renderer: the AudioRecorder component of part_003 and of
\* AudioRecorder.tsx. rend.isRecording / rend.isProcessing are the values of
\* the last render (the ones closures captured), rend.next the values the
\* setState calls since then have requested. The main process is the
\* environment: it answers invokes and sends audio-data events.
\* ---------------------------------------------------------------------------

RendVariants == {"part_003", "AudioRecorder.tsx"}

natives == <<cap, src, starts, tsfn, js, audio, crashed, nStarts, nBlocks,
             main, mixerState>>

\* ipcRenderer.invoke("start-audio-capture", {sessionId, ...})
InvokeStart(r, sessionId) == [r EXCEPT !.sent = Append(r.sent, sessionId)]

\* ipcRenderer.invoke("stop-audio-capture")
InvokeStop(r) == [r EXCEPT !.stops = r.stops + 1]

\* No setState call waits for its render. React renders before the next
\* event, reply or timer is handled, so the other steps start from here.
Rendered ==
  rend.next = [isRecording |-> rend.isRecording,
               isProcessing |-> rend.isProcessing]

\* The session ids of the start requests sent so far.
SentIds == {rend.sent[i] : i \in DOMAIN rend.sent}

\* handleAudioData without the comparison of the frame's session id.
handleAudioDataAnySession(l, sessionId, excess) ==
  l.isRecording /\ ~excess

\* handleAudioData: the frame is dropped unless isRecording (as captured)
\* and data.sessionId === recordingSessionId.current; AudioRecorder.tsx also
\* drops a frame when more samples are stored than the elapsed time allows.
handleAudioData(l, sessionId, excess) ==
  /\ l.isRecording
  /\ sessionId = rend.recordingSessionId
  /\ ~excess

\* eventHandler of setupRecording (part_003):
\* !cleanup && isRecording && data.sessionId === currentSessionId
eventHandler(l, sessionId) ==
  /\ l.isRecording
  /\ sessionId = l.sessionId
  /\ handleAudioData(l, sessionId, FALSE)

\* An audio-data event reaches the registered listener; an accepted frame is
\* pushed on audioChunksRef.current. Frames carry the session id of a start
\* request (the closure of the handler's callback). More samples than the
\* elapsed time allows (currentSamples > expectedSamples) can be stored only
\* when some are.
audioData(sessionId, excess) ==
  /\ Rendered
  /\ rend.frames < MaxFrames
  /\ sessionId \in SentIds
  /\ excess => rend.variant = "AudioRecorder.tsx" /\ rend.audioChunks # <<>>
  /\ LET accepted ==
           /\ rend.listener.on
           /\ IF rend.variant = "part_003"
              THEN eventHandler(rend.listener, sessionId)
              ELSE handleAudioData(rend.listener, sessionId, excess)
     IN  rend' = [rend EXCEPT
           !.frames = rend.frames + 1,
           !.frame = sessionId,
           !.audioChunks = IF accepted THEN Append(rend.audioChunks, sessionId)
                           ELSE rend.audioChunks]
  /\ UNCHANGED natives

\* startRecording up to its first await. part_003: the chunks are cleared
\* and start-audio-capture is invoked with recordingSessionId.current as it
\* is. AudioRecorder.tsx: stop-audio-capture is invoked first.
startRecording ==
  /\ Rendered
  /\ rend.clicks < MaxClicks
  /\ rend.start = "idle"
  /\ ~rend.isProcessing
  /\ IF rend.variant = "part_003"
     THEN /\ ~rend.isRecording
          /\ rend' = [InvokeStart(rend, rend.recordingSessionId) EXCEPT
                        !.clicks = rend.clicks + 1,
                        !.startClicks = rend.startClicks + 1,
                        !.outcome = "none",
                        !.next = [isRecording |-> TRUE, isProcessing |-> TRUE],
                        !.audioChunks = <<>>,
                        !.start = "starting"]
     ELSE rend' = [InvokeStop(rend) EXCEPT
                     !.clicks = rend.clicks + 1,
                     !.startClicks = rend.startClicks + 1,
                     !.outcome = "none",
                     !.next.isProcessing = TRUE,
                     !.start = "stopping"]
  /\ UNCHANGED natives

\* startRecording of AudioRecorder.tsx after its stop-audio-capture invoke
\* and the 500 ms delay: the chunks are cleared, the session id is
\* incremented and start-audio-capture is invoked with it. A rejected stop
\* goes to the catch block: cleanupRecording invokes stop-audio-capture.
startRecordingReset(ok) ==
  /\ Rendered
  /\ rend.start = "stopping"
  /\ rend' = IF ok
             THEN [InvokeStart(rend, rend.recordingSessionId + 1) EXCEPT
                     !.audioChunks = <<>>,
                     !.recordingSessionId = rend.recordingSessionId + 1,
                     !.next.isRecording = FALSE,
                     !.start = "starting"]
             ELSE [InvokeStop(rend) EXCEPT !.start = "cleanup"]
  /\ UNCHANGED natives

\* The start-audio-capture invoke of startRecording settles. part_003: a
\* rejection resets isRecording; finally setIsProcessing(false).
\* AudioRecorder.tsx: setIsRecording(true) on success, cleanupRecording on
\* rejection.
startRecordingSettled(ok) ==
  /\ Rendered
  /\ rend.start = "starting"
  /\ rend' = IF rend.variant = "part_003"
             THEN [rend EXCEPT
                     !.next = [isRecording |-> IF ok THEN rend.next.isRecording
                                               ELSE FALSE,
                               isProcessing |-> FALSE],
                     !.start = "idle"]
             ELSE IF ok
             THEN [rend EXCEPT
                     !.next = [isRecording |-> TRUE, isProcessing |-> FALSE],
                     !.start = "idle"]
             ELSE [InvokeStop(rend) EXCEPT !.start = "cleanup"]
  /\ UNCHANGED natives

\* cleanupRecording after its stop-audio-capture invoke: the chunks are
\* cleared, setIsRecording(false); startRecording rethrows and its finally
\* block runs setIsProcessing(false).
cleanupRecording ==
  /\ Rendered
  /\ rend.start = "cleanup"
  /\ rend' = [rend EXCEPT
                !.audioChunks = <<>>,
                !.next = [isRecording |-> FALSE, isProcessing |-> FALSE],
                !.start = "idle"]
  /\ UNCHANGED natives

\* alert(error.message) of stopRecording when no chunk was collected.
NoAudio == "No audio data was recorded"

\* stopRecording up to its first await. part_003 resets isRecording at once;
\* with chunks it awaits the encoding, without chunks it skips the
\* processing and runs to its finally block. AudioRecorder.tsx invokes
\* stop-audio-capture first.
stopRecording ==
  /\ Rendered
  /\ rend.clicks < MaxClicks
  /\ rend.start = "idle" /\ rend.stop = "idle"
  /\ rend.isRecording
  /\ LET begun == [rend EXCEPT !.clicks = rend.clicks + 1,
                               !.alert = "none", !.outcome = "none",
                               !.kept = rend.recordings]
     IN  rend' = IF rend.variant = "part_003"
                 THEN IF rend.audioChunks # <<>>
                      THEN [begun EXCEPT
                              !.next = [isRecording |-> FALSE,
                                        isProcessing |-> TRUE],
                              !.stopSession = rend.recordingSessionId,
                              !.stop = "encoding"]
                      ELSE [begun EXCEPT
                              !.next = [isRecording |-> FALSE,
                                        isProcessing |-> FALSE],
                              !.outcome = "empty"]
                 ELSE [InvokeStop(begun) EXCEPT
                         !.next.isProcessing = TRUE,
                         !.stopSession = rend.recordingSessionId,
                         !.stop = "encoding"]
  /\ UNCHANGED natives

\* stopRecording of AudioRecorder.tsx begun while an earlier call of it
\* awaits: the button calls stopRecording as long as isRecording is
\* rendered, and stopRecording returns early only on !isRecording.
stopRecordingAgain ==
  /\ rend.variant = "AudioRecorder.tsx"
  /\ Rendered
  /\ rend.clicks < MaxClicks
  /\ rend.start = "idle" /\ rend.stop = "encoding" /\ rend.stop2 = "idle"
  /\ rend.isRecording
  /\ rend' = [InvokeStop(rend) EXCEPT
                !.clicks = rend.clicks + 1,
                !.alert = "none", !.outcome = "none",
                !.kept = rend.recordings,
                !.next.isProcessing = TRUE,
                !.stop2Session = rend.recordingSessionId,
                !.stop2 = "encoding"]
  /\ UNCHANGED natives

\* A test that lets every finished recording through.
sameSessionAlways(currentSessionId) == TRUE

\* stopRecording, "Only update if we're still in the same session":
\* AudioRecorder.tsx compares the currentSessionId it took when it began
\* with recordingSessionId.current, part_003 compares
\* recordingSessionId.current with itself.
sameSession(currentSessionId) ==
  IF rend.variant = "part_003"
  THEN rend.recordingSessionId = rend.recordingSessionId
  ELSE currentSessionId = rend.recordingSessionId

\* stopRecording after its awaits. AudioRecorder.tsx: a rejected
\* stop-audio-capture invoke and an empty chunk collection ("No audio data
\* was recorded") go to the catch block, which alerts the message; else the
\* recording is encoded and, in the same session, added ("superseded": the
\* session test kept it out). part_003: likewise without the invoke. Both:
\* setIsRecording(false) (in the try or in the catch block) and, in the
\* finally block, setIsProcessing(false); the chunks stay, the closure's
\* isRecording being true.
stopRecordingEnd(ok, currentSessionId) ==
  LET done == [rend EXCEPT
                 !.next = [isRecording |-> FALSE, isProcessing |-> FALSE]]
  IN  IF ~ok
      THEN [done EXCEPT !.alert = "Failed to stop recording"]
      ELSE IF rend.audioChunks = <<>>
      THEN [done EXCEPT !.alert = NoAudio, !.outcome = "empty"]
      ELSE IF sameSession(currentSessionId)
      THEN [done EXCEPT !.outcome = "saved",
                        !.recordings = rend.recordings + 1,
                        !.published = currentSessionId]
      ELSE [done EXCEPT !.outcome = "superseded"]

stopRecordingDone(ok) ==
  /\ Rendered
  /\ rend.stop = "encoding"
  /\ ~ok => rend.variant = "AudioRecorder.tsx"
  /\ rend' = [stopRecordingEnd(ok, rend.stopSession) EXCEPT !.stop = "idle"]
  /\ UNCHANGED natives

\* The call begun while another was under way comes to its end.
stopRecordingAgainDone(ok) ==
  /\ Rendered
  /\ rend.stop2 = "encoding"
  /\ rend' = [stopRecordingEnd(ok, rend.stop2Session) EXCEPT
                !.stop2 = "idle"]
  /\ UNCHANGED natives

\* React renders with the requested state and runs the effects whose
\* dependencies changed. part_003, useEffect(setupRecording): the cleanup of
\* the previous run removes its listener and invokes stop-audio-capture if
\* that run's isRecording && !isProcessing; setupRecording, if isRecording,
\* clears the chunks, increments the session id, registers eventHandler and
\* invokes start-audio-capture. AudioRecorder.tsx: handleAudioData is
\* registered anew with the isRecording of this render.
render ==
  /\ rend.variant # "none"
  /\ ~Rendered
  /\ LET committed == [rend EXCEPT !.isRecording = rend.next.isRecording,
                                   !.isProcessing = rend.next.isProcessing]
         cleaned == IF rend.isRecording /\ ~rend.isProcessing
                    THEN InvokeStop(committed) ELSE committed
     IN  rend' =
           IF rend.variant = "AudioRecorder.tsx"
           THEN [committed EXCEPT !.listener.isRecording = rend.next.isRecording]
           ELSE IF rend.next.isRecording
           THEN [InvokeStart(cleaned, rend.recordingSessionId + 1) EXCEPT
                   !.audioChunks = <<>>,
                   !.recordingSessionId = rend.recordingSessionId + 1,
                   !.listener = [on |-> TRUE, isRecording |-> TRUE,
                                 sessionId |-> rend.recordingSessionId + 1],
                   !.setup = "starting"]
           ELSE [cleaned EXCEPT !.listener = NoListener, !.setup = "idle"]
  /\ UNCHANGED natives

\* The start-audio-capture invoke of setupRecording settles; a rejection
\* resets isRecording unless the effect was cleaned up meanwhile.
setupRecordingSettled(ok) ==
  /\ Rendered
  /\ rend.setup = "starting"
  /\ rend' = [rend EXCEPT
                !.next.isRecording = IF ok THEN rend.next.isRecording ELSE FALSE,
                !.setup = "idle"]
  /\ UNCHANGED natives

\* ---------------------------------------------------------------------------
\* The renderer: how stopRecording builds the recording from the chunks
\* ---------------------------------------------------------------------------

\* Sample counts of a chunk (an audio-data buffer converted to Float32Array).
ChunkLens == {1, 10, 100, FRAME_SIZE}

\* Sample offsets, from the start of the recording, at which a chunk was
\* captured.
CaptureOffsets == {0, 90, 100, 150}

\* The chunk collections stopRecording may find: each entry with its sample
\* count and the offset of its capture time, in the order of arrival.
Collections ==
  {es \in UNION {[1..n -> [at : CaptureOffsets, len : ChunkLens]] :
                   n \in 1..MaxEntries} :
     \A i \in DOMAIN es : i > 1 => es[i - 1].at <= es[i].at}

\* audioChunksRef.current.reduce((acc, chunk) => acc + chunk.length, 0)
RECURSIVE actualSamples(_)
actualSamples(es) ==
  IF es = <<>> THEN 0 ELSE Head(es).len + actualSamples(Tail(es))

\* stopRecording: combinedArray = new Float32Array(actualSamples), zero
\* filled; each chunk is set at the running offset, which then advances by
\* the chunk's length. offsets[i] is where chunk i was written.
combinedArray(es) ==
  [length |-> actualSamples(es),
   offsets |-> [i \in DOMAIN es |-> actualSamples(SubSeq(es, 1, i - 1))]]

\* DataView.setUint32(offset, value, true): the four bytes written, least
\* significant first; the value is taken modulo 2^32.
setUint32(value) ==
  <<value % 256, (value \div 256) % 256, (value \div 65536) % 256,
    (value \div 16777216) % 256>>

\* The unsigned 32-bit little-endian number a reader finds in four bytes.
getUint32(bytes) ==
  bytes[1] + 256 * bytes[2] + 65536 * bytes[3] + 16777216 * bytes[4]

\* audioBufferToWav without room for the header.
audioBufferToWavDataOnly(length, numChannels) ==
  [size |-> length * numChannels * 2,
   riff |-> setUint32(length * numChannels * 2),
   data |-> setUint32(length * numChannels * 2)]

\* audioBufferToWav: the size of the array buffer, and the RIFF chunk size
\* (offset 4) and the data chunk size (offset 40) of the header.
audioBufferToWav(length, numChannels) ==
  LET bitDepth == 16
      dataLength == length * numChannels * (bitDepth \div 8)
      bufferLength == 44 + dataLength
  IN  [size |-> bufferLength,
       riff |-> setUint32(bufferLength - 8),
       data |-> setUint32(dataLength)]

\* stopRecording: the chunks are combined into one array.
stopRecordingCombine ==
  /\ rend.stop = "combining"
  /\ rend' = [rend EXCEPT !.combined = combinedArray(rend.entries),
                          !.stop = "encoding"]
  /\ UNCHANGED natives

\* stopRecording: the audio buffer made of the combined array, mono, is
\* converted with audioBufferToWav.
stopRecordingEncode ==
  /\ rend.stop = "encoding"
  /\ rend.combined # NoCombined
  /\ rend' = [rend EXCEPT
                !.wav = audioBufferToWav(rend.combined.length, 1),
                !.stop = "encoded"]
  /\ UNCHANGED natives

\* ---------------------------------------------------------------------------
\* The accumulator locks: the @synchronized blocks on systemAudioBuffer and
\* micAudioBuffer, entered one at a time. audio[c].held and js.held are the
\* locks each thread holds, in the order it took them. Both source callbacks
\* run on the serial audioQueue; stopCapture runs on the JavaScript thread.
\* ---------------------------------------------------------------------------

\* The locks in a sequence of held locks.
Locks(held) == {held[i] : i \in DOMAIN held}

\* Lock l of capturer c is free for the audio queue / for the JavaScript
\* thread (@synchronized is recursive: a thread never waits for itself).
FreeForAudio(c, l) == ~(js.c = c /\ l \in Locks(js.held))

FreeForJs(c, l) == l \notin Locks(audio[c].held)

\* The source callback enters @synchronized on its own accumulator.
appendEnter(c) ==
  /\ ~crashed
  /\ audio[c].pc = "append"
  /\ FreeForAudio(c, audio[c].kind)
  /\ audio' = [audio EXCEPT ![c].pc = "append_locked",
                            ![c].held = <<audio[c].kind>>]
  /\ UNCHANGED <<cap, src, starts, tsfn, js, crashed, nStarts, nBlocks>>
  /\ UNCHANGED <<main, rend, mixerState>>

\* The callback appends the block and leaves the @synchronized block; it
\* goes on to processCombinedAudioIfReady.
appendLeave(c) ==
  /\ ~crashed
  /\ audio[c].pc = "append_locked"
  /\ cap' = IF audio[c].kind = "system"
            THEN [cap EXCEPT ![c].systemAudioBuffer =
                    AppendBytes(cap[c].systemAudioBuffer, audio[c].ep, audio[c].bytes)]
            ELSE [cap EXCEPT ![c].micAudioBuffer =
                    AppendBytes(cap[c].micAudioBuffer, audio[c].ep, audio[c].bytes)]
  /\ audio' = [audio EXCEPT ![c].pc = "process", ![c].held = <<>>]
  /\ UNCHANGED <<src, starts, tsfn, js, crashed, nStarts, nBlocks>>
  /\ UNCHANGED <<main, rend, mixerState>>

\* processCombinedAudioIfReady enters its outer @synchronized block.
processEnterOuter(c) ==
  /\ ~crashed
  /\ audio[c].pc = "process"
  /\ FreeForAudio(c, LockOrder[1])
  /\ audio' = [audio EXCEPT ![c].pc = "process_inner",
                            ![c].held = <<LockOrder[1]>>]
  /\ UNCHANGED <<cap, src, starts, tsfn, js, crashed, nStarts, nBlocks>>
  /\ UNCHANGED <<main, rend, mixerState>>

\* processCombinedAudioIfReady enters its inner @synchronized block.
processEnterInner(c) ==
  /\ ~crashed
  /\ audio[c].pc = "process_inner"
  /\ FreeForAudio(c, LockOrder[2])
  /\ audio' = [audio EXCEPT ![c].pc = "process_check",
                            ![c].held = Append(audio[c].held, LockOrder[2])]
  /\ UNCHANGED <<cap, src, starts, tsfn, js, crashed, nStarts, nBlocks>>
  /\ UNCHANGED <<main, rend, mixerState>>

\* processCombinedAudioIfReady inside both blocks: the readiness condition
\* is evaluated; when it holds the pass starts on self.audioMixer with both
\* locks held, else both blocks are left.
processCheck(c) ==
  /\ ~crashed
  /\ audio[c].pc = "process_check"
  /\ audio' = IF Ready(c)
              THEN [audio EXCEPT ![c].pc = "mixing",
                                 ![c].mixer = cap[c].audioMixer]
              ELSE [audio EXCEPT ![c] = AudioIdle]
  /\ UNCHANGED <<cap, src, starts, tsfn, js, crashed, nStarts, nBlocks>>
  /\ UNCHANGED <<main, rend, mixerState>>

\* stopCapture enters @synchronized on an accumulator.
stopCaptureEnter(l) ==
  /\ ~crashed
  /\ js.pc = (IF l = "system" THEN "stop_clear_system" ELSE "stop_clear_mic")
  /\ js.held = <<>>
  /\ FreeForJs(js.c, l)
  /\ js' = [js EXCEPT !.held = <<l>>]
  /\ UNCHANGED <<cap, src, starts, tsfn, audio, crashed, nStarts, nBlocks>>
  /\ UNCHANGED <<main, rend, mixerState>>

\* stopCapture: setLength:0 on the accumulator, and the block is left.
stopCaptureSetLength(l) ==
  /\ ~crashed
  /\ js.pc = (IF l = "system" THEN "stop_clear_system" ELSE "stop_clear_mic")
  /\ js.held = <<l>>
  /\ cap' = IF l = "system"
            THEN [cap EXCEPT ![js.c].systemAudioBuffer = <<>>]
            ELSE [cap EXCEPT ![js.c].micAudioBuffer = <<>>]
  /\ js' = [js EXCEPT !.held = <<>>,
                      !.pc = IF l = "system" THEN "stop_clear_mic"
                             ELSE "stop_mixer"]
  /\ UNCHANGED <<src, starts, tsfn, audio, crashed, nStarts, nBlocks>>
  /\ UNCHANGED <<main, rend, mixerState>>

\* ---------------------------------------------------------------------------
\* AudioMixer. Its floats are followed in fixed point: Unit stands for 1.0f
\* and every product is rounded to the nearest multiple of 1/Unit, as float
\* arithmetic rounds to the nearest float. mixerState.systemBuffer is the
\* system samples processSystemAudio has gone through so far and
\* mixerState.delayedSystem the value it read last from the delay line.
\* ---------------------------------------------------------------------------

Unit == 1000

\* n / d rounded to the nearest integer, n >= 0.
Round(n, d) == (2 * n + d) \div (2 * d)

\* format.mSampleRate of the formats a mixer is made for here: delay lines
\* of 3 and 5 samples. (startCaptureWithOptions asks for 48000, a delay line
\* of 4800 samples.)
SampleRates == {30, 50}

\* initWithFormat: a zeroed delay buffer of 100 ms, position 0, peak 0.0f,
\* ducking 1.0f.
initWithFormat(mSampleRate) ==
  [delayBufferSize |-> mSampleRate \div 10,
   delayBufferPos |-> 0,
   delayBuffer |-> [i \in 1..(mSampleRate \div 10) |-> 0],
   lastSystemPeak |-> 0,
   micDuckingFactor |-> Unit,
   systemBuffer |-> <<>>,
   delayedSystem |-> 0]

\* currentSystemPeak of a frame, the greatest fabsf of its samples: silence,
\* at and above the ducking threshold, beyond full scale.
Peaks == {0, Unit \div 10, Unit \div 5, 2 * Unit}

\* A target without its lower limit.
targetDuckingUnlimited(lastSystemPeak) ==
  IF lastSystemPeak > Unit \div 10
  THEN Unit - Round(lastSystemPeak * 15, 10)
  ELSE Unit

\* processSystemAudio: targetDucking =
\* (_lastSystemPeak > 0.1f) ? fmax(0.3f, 1.0f - (_lastSystemPeak * 1.5f)) : 1.0f
targetDucking(lastSystemPeak) ==
  IF lastSystemPeak > Unit \div 10
  THEN LET ducked == Unit - Round(lastSystemPeak * 15, 10)
           floor == (3 * Unit) \div 10
       IN  IF ducked > floor THEN ducked ELSE floor
  ELSE Unit

\* processSystemAudio up to its sample loop: the peak of the frame is
\* smoothed into _lastSystemPeak, the target follows from it and is smoothed
\* into _micDuckingFactor.
smoothDucking(currentSystemPeak) ==
  /\ mixerState # NoMixer
  /\ LET peak == Round(mixerState.lastSystemPeak * 9, 10)
                    + Round(currentSystemPeak, 10)
     IN  mixerState' =
           [mixerState EXCEPT
              !.lastSystemPeak = peak,
              !.micDuckingFactor =
                 Round(mixerState.micDuckingFactor * 95, 100)
                   + Round(targetDucking(peak) * 5, 100)]
  /\ UNCHANGED <<cap, src, starts, tsfn, js, audio, crashed, nStarts, nBlocks,
                 main, rend>>

\* Values of a system sample.
SampleValues == {1, 2}

\* A loop that advances the position before it stores the sample.
delayLineStoreAfterAdvance(m, systemSample) ==
  LET next == (m.delayBufferPos + 1) % m.delayBufferSize
  IN  [m EXCEPT
         !.delayedSystem = m.delayBuffer[m.delayBufferPos + 1],
         !.delayBuffer[next + 1] = systemSample,
         !.delayBufferPos = next,
         !.systemBuffer = Append(m.systemBuffer, systemSample)]

\* The sample loop of processSystemAudio, one iteration:
\* delayedSystem = _delayBuffer[_delayBufferPos];
\* _delayBuffer[_delayBufferPos] = systemSample;
\* _delayBufferPos = (_delayBufferPos + 1) % _delayBufferSize
delayLine(m, systemSample) ==
  [m EXCEPT
     !.delayedSystem = m.delayBuffer[m.delayBufferPos + 1],
     !.delayBuffer[m.delayBufferPos + 1] = systemSample,
     !.delayBufferPos = (m.delayBufferPos + 1) % m.delayBufferSize,
     !.systemBuffer = Append(m.systemBuffer, systemSample)]

\* processSystemAudio goes through one more system sample.
processSample(systemSample) ==
  /\ mixerState # NoMixer
  /\ Len(mixerState.systemBuffer) < MaxSamples
  /\ mixerState' = delayLine(mixerState, systemSample)
  /\ UNCHANGED <<cap, src, starts, tsfn, js, audio, crashed, nStarts, nBlocks,
                 main, rend>>

\* ---------------------------------------------------------------------------
\* Specification
\* ---------------------------------------------------------------------------

Next ==
  \/ \E c \in Capturers, info \in ArgLists : callStartCapture(c, info)
  \/ startCaptureWithOptions
  \/ startCaptureNoSource
  \/ \E micOk \in BOOLEAN : startCaptureOpen(micOk)
  \/ \E c \in Capturers : callStopCapture(c)
  \/ stopCapture
  \/ stopCaptureWait
  \/ stopCaptureClearSystem
  \/ stopCaptureClearMic
  \/ stopCaptureMixer
  \/ \E dies \in BOOLEAN : stopCaptureRelease(dies)
  \/ \E e \in Epochs, ok \in BOOLEAN : initializeSystemCapture(e, ok)
  \/ \E e \in Epochs, k \in Kinds : sourceStopped(e, k)
  \/ \E e \in Epochs : micDisconnected(e)
  \/ \E c \in Capturers, k \in Kinds, n \in BlockBytes : didOutputSampleBuffer(c, k, n)
  \/ \E c \in Capturers : appendBytes(c)
  \/ \E c \in Capturers : processCombinedAudioIfReady(c)
  \/ \E c \in Capturers, dies \in BOOLEAN : mixingPass(c, dies)
  \/ \E k \in Epochs : DispatchOne(k)
  \/ audioDataCallback
  \/ callerContinues

Spec == Init /\ [][Next]_vars

\* The addon with several SystemAudioCapture objects (initAudioCapture of
\* part_001 constructs one per start request): the JavaScript thread and
\* the completion handlers, before any block is delivered.
InitObjects ==
  /\ InitAddon
  /\ cap = [c \in Capturers |-> AudioCapturerInit]
  /\ main = NoMain
  /\ rend = NoRend

NextObjects ==
  \/ \E c \in Capturers : New(c)
  \/ \E c \in Capturers, info \in ArgLists : callStartCapture(c, info)
  \/ startCaptureWithOptions
  \/ startCaptureNoSource
  \/ \E micOk \in BOOLEAN : startCaptureOpen(micOk)
  \/ \E c \in Capturers : callStopCapture(c)
  \/ stopCapture
  \/ stopCaptureWait
  \/ stopCaptureClearSystem
  \/ stopCaptureClearMic
  \/ stopCaptureMixer
  \/ \E dies \in BOOLEAN : stopCaptureRelease(dies)
  \/ \E e \in Epochs, ok \in BOOLEAN : initializeSystemCapture(e, ok)
  \/ \E e \in Epochs, k \in Kinds : sourceStopped(e, k)
  \/ \E k \in Epochs : DispatchOne(k)
  \/ callerContinues

SpecObjects == InitObjects /\ [][NextObjects]_vars

\* The main process as written: the renderer's requests reach the addon
\* through the IPC handlers only.
InitMain ==
  /\ InitAddon
  /\ cap = [c \in Capturers |-> AudioCapturerInit]
  /\ main \in {MainInit(v) : v \in MainVariants}
  /\ rend = NoRend

NextMain ==
  \/ \E options \in Options : startHandler(options)
  \/ \E screen \in ScreenOutcomes, mic \in BOOLEAN, c \in Capturers :
       requestPermissions(screen, mic, c)
  \/ startHandlerCall
  \/ startHandlerReturn
  \/ stopHandler
  \/ stopCapture
  \/ \E who \in {"start", "stop"} : stopCaptureReturned(who)
  \/ \E who \in {"start", "stop"} : stopExistingCaptureDone(who)

SpecMain == InitMain /\ [][NextMain]_vars

\* The renderer, with the main process as its environment.
InitRend ==
  /\ InitAddon
  /\ cap = [c \in Capturers |-> AudioCapturerInit]
  /\ main = NoMain
  /\ rend \in {RendInit(v) : v \in RendVariants}

NextRend ==
  \/ startRecording
  \/ \E ok \in BOOLEAN : startRecordingReset(ok)
  \/ \E ok \in BOOLEAN : startRecordingSettled(ok)
  \/ cleanupRecording
  \/ stopRecording
  \/ stopRecordingAgain
  \/ \E ok \in BOOLEAN : stopRecordingDone(ok)
  \/ \E ok \in BOOLEAN : stopRecordingAgainDone(ok)
  \/ render
  \/ \E ok \in BOOLEAN : setupRecordingSettled(ok)
  \/ \E sessionId \in SentIds, excess \in BOOLEAN :
       audioData(sessionId, excess)

SpecRend == InitRend /\ [][NextRend]_vars

\* stopRecording from its check of the chunk collection on: a non-empty
\* collection is combined and encoded.
InitEncode ==
  /\ InitAddon
  /\ cap = [c \in Capturers |-> AudioCapturerInit]
  /\ main = NoMain
  /\ rend \in {[RendInit("AudioRecorder.tsx") EXCEPT !.entries = es,
                                                   !.stop = "combining"] :
                 es \in Collections}

NextEncode ==
  \/ stopRecordingCombine
  \/ stopRecordingEncode

SpecEncode == InitEncode /\ [][NextEncode]_vars

\* One session of capturer 1, begun by start call 1, is capturing: the
\* system source runs, and the microphone if it was requested. From here the
\* blocks arrive and stopCapture is called, every @synchronized block on an
\* accumulator being entered and left in steps of its own.
InitLocks ==
  /\ \E mic \in BOOLEAN :
       /\ cap = [c \in Capturers |->
                  IF c = 1
                  THEN [AudioCapturerInit EXCEPT
                          !.constructed = TRUE, !.isCapturing = TRUE,
                          !.sessionId = 1, !.shouldCaptureSystem = TRUE,
                          !.shouldCaptureMic = mic, !.systemStream = 1,
                          !.micSession = IF mic THEN 1 ELSE 0,
                          !.audioMixer = "ready", !.jsCallback = 1,
                          !.epoch = 1]
                  ELSE AudioCapturerInit]
       /\ src = [e \in Epochs |->
                  [k \in Kinds |->
                    IF e = 1 /\ (k = "system" \/ mic) THEN "running"
                    ELSE "none"]]
  /\ starts = [e \in Epochs |->
                IF e = 1 THEN [c |-> 1, sessionId |-> 1]
                ELSE [c |-> 0, sessionId |-> 0]]
  /\ tsfn = [e \in Epochs |->
              [state |-> IF e = 1 THEN "live" ELSE "none", queue |-> <<>>]]
  /\ js = JsIdle
  /\ audio = [c \in Capturers |-> AudioIdle]
  /\ crashed = FALSE
  /\ nStarts = 1
  /\ nBlocks = 0
  /\ mixerState = NoMixer
  /\ main = NoMain
  /\ rend = NoRend

NextLocks ==
  \/ \E c \in Capturers, k \in Kinds, n \in BlockBytes : didOutputSampleBuffer(c, k, n)
  \/ \E c \in Capturers : appendEnter(c)
  \/ \E c \in Capturers : appendLeave(c)
  \/ \E c \in Capturers : processEnterOuter(c)
  \/ \E c \in Capturers : processEnterInner(c)
  \/ \E c \in Capturers : processCheck(c)
  \/ \E c \in Capturers, dies \in BOOLEAN : mixingPass(c, dies)
  \/ \E c \in Capturers : callStopCapture(c)
  \/ stopCapture
  \/ stopCaptureWait
  \/ \E l \in Kinds : stopCaptureEnter(l)
  \/ \E l \in Kinds : stopCaptureSetLength(l)
  \/ stopCaptureMixer
  \/ \E dies \in BOOLEAN : stopCaptureRelease(dies)
  \/ \E e \in Epochs, k \in Kinds : sourceStopped(e, k)
  \/ \E k \in Epochs : DispatchOne(k)
  \/ audioDataCallback
  \/ callerContinues

SpecLocks == InitLocks /\ [][NextLocks]_vars

\* No capturer takes part: a mixer alone.
NoAddon ==
  /\ cap = [c \in Capturers |-> AudioCapturerInit]
  /\ src = [e \in Epochs |-> [k \in Kinds |-> "none"]]
  /\ starts = [e \in Epochs |-> [c |-> 0, sessionId |-> 0]]
  /\ tsfn = [e \in Epochs |-> [state |-> "none", queue |-> <<>>]]
  /\ js = JsIdle
  /\ audio = [c \in Capturers |-> AudioIdle]
  /\ crashed = FALSE
  /\ nStarts = 0
  /\ nBlocks = 0
  /\ main = NoMain
  /\ rend = NoRend

\* A mixer as startCaptureWithOptions creates it, and the passes made on it:
\* the smoothing of the peak and of the ducking, in which the delay line
\* plays no part (the mixer of the lowest rate is followed).
InitMixer ==
  /\ NoAddon
  /\ mixerState \in {initWithFormat(r) :
                        r \in {q \in SampleRates :
                                 \A p \in SampleRates : q <= p}}

NextMixer == \E peak \in Peaks : smoothDucking(peak)

SpecMixer == InitMixer /\ [][NextMixer]_vars

\* A mixer as startCaptureWithOptions creates it, and the samples it goes
\* through: the delay line.
InitDelay ==
  /\ NoAddon
  /\ mixerState \in {initWithFormat(r) : r \in SampleRates}

NextDelay == \E systemSample \in SampleValues : processSample(systemSample)

SpecDelay == InitDelay /\ [][NextDelay]_vars

\* ---------------------------------------------------------------------------
\* Properties
\* ---------------------------------------------------------------------------

\* The start calls made on capturer c before start call e.
Earlier(e) == {d \in Epochs : d < e /\ starts[d].c = starts[e].c}

\* Sessions that have bytes on the audio queue of c, in its accumulators or
\* in a frame waiting in a ThreadSafeFunction's queue.
InAccumulators(c) ==
  {r[1] : r \in {cap[c].systemAudioBuffer[i] :
                   i \in DOMAIN cap[c].systemAudioBuffer}} \cup
  {r[1] : r \in {cap[c].micAudioBuffer[i] : i \in DOMAIN cap[c].micAudioBuffer}}

InFlight(c) == IF audio[c].pc = "idle" THEN {} ELSE {audio[c].ep}

Queued ==
  UNION {UNION {tsfn[k].queue[i].eps : i \in DOMAIN tsfn[k].queue} : k \in Epochs}

\* A source of start call e is open.
Open(e) ==
  \E k \in Kinds : src[e][k] \in {"pending", "running", "lost", "stopping"}

\* C1: at most one SystemAudioCapture object is capturing at a time, and at
\* most one has open sources.
C1_OneCapturingSession ==
  /\ Cardinality({c \in Capturers : cap[c].isCapturing}) <= 1
  /\ Cardinality({starts[e].c : e \in {d \in Epochs : Open(d)}}) <= 1

\* C2: a frame handed to the JavaScript callback of start call k, which tags
\* it with that call's session id, was mixed only from blocks captured
\* during the session of that id.
C2_FrameTaggedWithItsSession ==
  js.pc = "callback" =>
    \A e \in js.frame.eps : starts[e].sessionId = Tag(js.e)

\* C3: when a start request that found the capturer capturing is about to
\* open its sources, every earlier session of the capturer is gone: its
\* sources are closed, no byte of it is left in the accumulators or on the
\* audio queue, and no frame of it waits for delivery.
C3_OldSessionStoppedBeforeOpen ==
  (js.pc = "start_open" /\ js.nested) =>
    \A d \in Earlier(js.e) :
      /\ \A k \in Kinds : src[d][k] = "none"
      /\ d \notin InAccumulators(js.c)
      /\ d \notin InFlight(js.c)
      /\ d \notin Queued

\* C4: a frame handed to the JavaScript callback holds only bytes of a
\* session that is still capturing: nothing of a session is delivered once
\* its stop has begun.
C4_NoDeliveryAfterStopBegan ==
  js.pc = "callback" => \A e \in js.frame.eps : Capturing(e)

\* C5: a stopCapture call that is under way can always go on to its return:
\* the process is alive while the call runs.
C5_StopGoesOnToReturn ==
  js.pc \in {"stop_check", "stop_wait", "stop_clear_system", "stop_clear_mic",
             "stop_mixer", "stop_release"} => ~crashed

\* C6: every frame in the chunk collection carries the consumer's current
\* session id: a frame of another session is never appended.
C6_ChunksOfCurrentSession ==
  \A i \in DOMAIN rend.audioChunks :
    rend.audioChunks[i] = rend.recordingSessionId

\* A frame of the current session was appended after a frame of an earlier
\* session had been delivered and turned away.
C6_FrameAppendedOtherDropped ==
  /\ rend.audioChunks # <<>>
  /\ rend.frames > Len(rend.audioChunks)
  /\ \E i \in DOMAIN rend.sent : rend.sent[i] # rend.recordingSessionId

\* C7: the session ids of the start requests sent to the main process
\* increase strictly, request after request.
C7_SessionIdsIncrease ==
  \A i, j \in DOMAIN rend.sent : i < j => rend.sent[i] < rend.sent[j]

\* C8: a start request with a source enabled, once the permissions are
\* granted, is answered with success: the handler's call of startCapture
\* is not refused.
C8_WellFormedStartSucceeds ==
  (main.start.reply \notin {"none", "denied"}
     /\ (main.start.options.system \/ main.start.options.mic)) =>
    main.start.reply = "ok"

\* C9: stopCapture on a capturer that is not capturing (never started, or
\* already stopped or stopping) is a no-op: the call goes straight to its
\* return and changes no flag, source, accumulator, mixer or callback, so a
\* second stop releases nothing again and leaves the state of the first.
C9_StopWhenNotCapturingIsNoOp ==
  [][(js.pc = "stop_check" /\ ~cap[js.c].isCapturing /\ js' # js) =>
       /\ js'.pc \in {"returned", "start_options"}
       /\ cap' = cap /\ src' = src /\ tsfn' = tsfn /\ audio' = audio]_vars

\* A stopCapture call has returned without doing anything and stopCapture
\* is called again on the capturer, whose session an earlier stopCapture
\* ended and whose callback that stop released.
C9_SecondStopReached ==
  /\ js.pc = "stop_check" /\ js.op = "stopCapture"
  /\ ~cap[js.c].isCapturing
  /\ cap[js.c].jsCallback # 0
  /\ tsfn[cap[js.c].jsCallback].state \in {"released", "closed"}
  /\ cap[js.c].audioMixer = "nil"

\* C10: a startCapture call whose options request neither source does not
\* return normally, opens no source, creates no mixer and leaves the
\* capturer not capturing.
C10_NoSourceStartFails ==
  (js.pc = "returned" /\ js.op = "startCapture" /\ js.e # 0
     /\ ~js.opts.system /\ ~js.opts.mic) =>
    /\ js.result # "undefined"
    /\ \A k \in Kinds : src[js.e][k] = "none"
    /\ cap[js.c].audioMixer = "nil"
    /\ ~cap[js.c].isCapturing

\* The start of a session on capturer c is under way: startCaptureWithOptions
\* is between isStarting = YES and isStarting = NO, or the system source it
\* requested is still being initialised by the completion handler of
\* getShareableContentWithCompletionHandler.
Starting(c) ==
  \/ cap[c].isStarting
  \/ /\ cap[c].epoch # 0
     /\ starts[cap[c].epoch].c = c
     /\ src[cap[c].epoch]["system"] = "pending"

\* C11: a startCapture call with a callback and options that arrives while
\* the start of a session is under way on the capturer is rejected and has
\* no effect: the capturer's fields (session id, requested sources, mixer,
\* delivery callback), the sources and the thread-safe functions are
\* unchanged.
C11_StartWhileStartingRejected ==
  [][(/\ js.pc = "idle"
      /\ js' # js
      /\ js'.op = "startCapture"
      /\ js'.result # "TypeError"
      /\ Starting(js'.c)) =>
       /\ js'.pc = "returned"
       /\ cap' = cap /\ src' = src /\ tsfn' = tsfn]_vars

\* Source k was requested by the options of the capturer's current session.
Requested(c, k) ==
  IF k = "system" THEN cap[c].shouldCaptureSystem ELSE cap[c].shouldCaptureMic

\* C12: a session is capturing only with every source it requested open
\* (being initialised or delivering): when a requested source could not be
\* opened, the start has failed and the capturer is not capturing.
C12_FailedSourceFailsStart ==
  \A e \in Epochs :
    Capturing(e) =>
      \A k \in Kinds :
        Requested(starts[e].c, k) => src[e][k] \in {"pending", "running", "lost"}

\* C13: the start handler goes on to the native capturer (initAudioCapture,
\* startCapture) or answers with success only with the permission of every
\* source the request asks for granted: screen recording for the system
\* source, the microphone for the mic source.
C13_NoStartWithoutPermission ==
  (main.start.pc \in {"call", "native"} \/ main.start.reply = "ok") =>
    /\ main.start.options.system => main.screen
    /\ main.start.options.mic => main.mic

\* C14: when a stopRecording has found no chunk, the user has been shown the
\* "no audio" error, no recording was added and the component goes back to
\* not recording.
C14_EmptyStopReportsNoAudio ==
  rend.outcome = "empty" =>
    /\ rend.alert = NoAudio
    /\ rend.recordings = rend.kept
    /\ ~rend.next.isRecording

\* The frames the mixing passes have produced and the JavaScript callback
\* has not finished with: those waiting in the queue of a thread-safe
\* function and the one the callback is handling.
FramesInFlight ==
  Cardinality({p \in Epochs \X (1..MaxBlocks) : p[2] <= Len(tsfn[p[1]].queue)})
  + (IF js.pc = "callback" THEN 1 ELSE 0)

\* C15: at most one produced frame is in flight between the mixing pass and
\* the JavaScript callback.
C15_OneFrameInFlight == FramesInFlight <= 1

\* C16: in a capturing session that requested both sources and whose
\* microphone was lost, every full frame of system audio is mixed
\* and emitted: once the audio queue has handled the blocks delivered so
\* far, less than a frame of system audio is left in the accumulator.
C16_MixesOnWithoutMic ==
  \A e \in Epochs :
    (/\ Capturing(e)
     /\ cap[starts[e].c].shouldCaptureSystem /\ cap[starts[e].c].shouldCaptureMic
     /\ src[e]["mic"] = "lost"
     /\ audio[starts[e].c].pc = "idle") =>
      BufLen(cap[starts[e].c].systemAudioBuffer) < BUFFER_SIZE

\* The frames waiting in the queues of the thread-safe functions.
QueuedFrames ==
  UNION {{tsfn[k].queue[i] : i \in DOMAIN tsfn[k].queue} : k \in Epochs}

C18_WavSizes ==
  rend.stop = "encoded" =>
    LET N == rend.combined.length
    IN  /\ rend.wav.size = 44 + 2 * N
        /\ getUint32(rend.wav.riff) = 36 + 2 * N
        /\ getUint32(rend.wav.data) = 2 * N

\* Two chunks of a frame each, 1920 samples, have been encoded.
C18_TwoFramesEncoded ==
  /\ rend.stop = "encoded"
  /\ rend.combined.length = 2 * FRAME_SIZE
  /\ rend.wav.size = 44 + 4 * FRAME_SIZE

\* The end of the sample range of entry i, derived from its capture time.
RangeEnd(es, i) == es[i].at + es[i].len

\* C19: when the ranges of two consecutive entries overlap, every entry of
\* the reconstructed buffer lies at the offset derived from its capture time
\* and the buffer ends where the last range ends: its length is not the sum
\* of the entry lengths.
C19_OverlapPlacedByTimestamp ==
  (/\ rend.combined # NoCombined
   /\ \E i \in DOMAIN rend.entries :
        i > 1 /\ rend.entries[i].at < RangeEnd(rend.entries, i - 1)) =>
    /\ \A i \in DOMAIN rend.entries :
         rend.combined.offsets[i] = rend.entries[i].at
    /\ \A i \in DOMAIN rend.entries :
         RangeEnd(rend.entries, i) <= rend.combined.length
    /\ \E i \in DOMAIN rend.entries :
         RangeEnd(rend.entries, i) = rend.combined.length

\* C20: when two consecutive entries leave a gap between their ranges, the
\* later entry lies at its own offset and the gap lies inside the buffer
\* with no entry written over it, so that it keeps the zeros the buffer was
\* created with.
C20_GapLeftAsZeros ==
  rend.combined # NoCombined =>
    \A i \in DOMAIN rend.entries :
      (i > 1 /\ RangeEnd(rend.entries, i - 1) < rend.entries[i].at) =>
        /\ rend.combined.offsets[i] = rend.entries[i].at
        /\ rend.entries[i].at <= rend.combined.length
        /\ \A j \in DOMAIN rend.entries :
             \/ rend.combined.offsets[j] + rend.entries[j].len
                  <= RangeEnd(rend.entries, i - 1)
             \/ rend.combined.offsets[j] >= rend.entries[i].at

\* The state of the session of capturer c: Stopping while stopCapture tears
\* the session down (from isCapturing = NO to its return), Starting while
\* isStarting, Capturing while isCapturing, else Idle.
SessionState(c) ==
  IF js.c = c /\ js.pc \in {"stop_wait", "stop_clear_system", "stop_clear_mic",
                            "stop_mixer", "stop_release"}
  THEN "Stopping"
  ELSE IF cap[c].isStarting THEN "Starting"
  ELSE IF cap[c].isCapturing THEN "Capturing"
  ELSE "Idle"

\* C21: the session state of a capturer changes only along
\* Idle -> Starting -> Capturing -> Stopping -> Idle, whatever start, stop
\* and failure events occur.
C21_StateCycleOnly ==
  [][\A c \in Capturers :
       SessionState(c)' # SessionState(c) =>
         <<SessionState(c), SessionState(c)'>> \in
           {<<"Idle", "Starting">>, <<"Starting", "Capturing">>,
            <<"Capturing", "Stopping">>, <<"Stopping", "Idle">>}]_vars

\* C22: no accumulator lock is held while a mixing pass (the DSP of the
\* mixer, the conversion and the hand-off of the frame to the
\* thread-safe function) is under way: the locks are held for an append or
\* a drain only.
C22_NoLockAcrossPass ==
  \A c \in Capturers : audio[c].pc = "mixing" => audio[c].held = <<>>

\* The lock the audio queue of c is about to enter, and the one stopCapture
\* is about to enter.
AudioWants(c) ==
  IF audio[c].pc = "append" THEN {audio[c].kind}
  ELSE IF audio[c].pc = "process" THEN {LockOrder[1]}
  ELSE IF audio[c].pc = "process_inner" THEN {LockOrder[2]}
  ELSE {}

JsWants ==
  IF js.held # <<>> THEN {}
  ELSE IF js.pc = "stop_clear_system" THEN {"system"}
  ELSE IF js.pc = "stop_clear_mic" THEN {"mic"}
  ELSE {}

\* C23: a thread that holds both accumulator locks took the system lock
\* first; no thread asks for the system lock while it holds the microphone
\* lock; and the audio queue and stopCapture never wait for each other's
\* lock at the same time.
C23_SystemLockBeforeMicLock ==
  /\ \A c \in Capturers :
       /\ audio[c].held \in {<<>>, <<"system">>, <<"mic">>, <<"system", "mic">>}
       /\ "system" \in AudioWants(c) => "mic" \notin Locks(audio[c].held)
       /\ ~ /\ \E l \in AudioWants(c) : ~FreeForAudio(c, l)
            /\ js.c = c
            /\ \E l \in JsWants : ~FreeForJs(c, l)
  /\ js.held \in {<<>>, <<"system">>, <<"mic">>, <<"system", "mic">>}
  /\ "system" \in JsWants => "mic" \notin Locks(js.held)

\* A mixing pass holds both locks, the system lock taken first, while
\* stopCapture waits to enter the block on the system accumulator.
C23_StopWaitsForPass ==
  /\ js.pc = "stop_clear_system" /\ js.held = <<>>
  /\ audio[js.c].pc = "mixing"
  /\ audio[js.c].held = <<"system", "mic">>

\* C24: while a mixing pass is under way, the system accumulator holds at
\* least FRAME_SIZE samples and, when the microphone is mixed, so does the
\* microphone accumulator: no pass reads from an accumulator that holds less
\* than one frame.
C24_PassReadsFullFrames ==
  \A c \in Capturers : audio[c].pc = "mixing" => Ready(c)

\* Accumulator new is what is left of accumulator old behind its first n
\* bytes: it is n bytes shorter and its bytes are the last bytes of old, run
\* by run.
RemovedFront(old, new, n) ==
  /\ BufLen(new) = BufLen(old) - n
  /\ Len(new) <= Len(old)
  /\ \A i \in DOMAIN new :
       LET o == old[Len(old) - Len(new) + i]
       IN  /\ new[i][1] = o[1]
           /\ IF i = 1 THEN new[i][2] <= o[2] ELSE new[i][2] = o[2]

C26_DuckingWithinBounds ==
  mixerState # NoMixer =>
    /\ (3 * Unit) \div 10 <= mixerState.micDuckingFactor
    /\ mixerState.micDuckingFactor <= Unit

\* Loud system audio has brought the ducking factor down to 0.31 or less.
C26_DuckedToTheFloor ==
  /\ mixerState # NoMixer
  /\ mixerState.lastSystemPeak > Unit
  /\ mixerState.micDuckingFactor * 100 <= 31 * Unit

\* C30: at every sample the mixer goes through, the length of the delay line
\* stays what it was, the write position lies in [0, length), and the
\* delayed sample that is read is the system sample that came exactly
\* `length` samples earlier, or 0 for the first `length` samples.
C30_DelayLineFixedLength ==
  [][LET m == mixerState'
         n == Len(m.systemBuffer)
     IN  /\ m.delayBufferSize = mixerState.delayBufferSize
         /\ Len(m.delayBuffer) = m.delayBufferSize
         /\ 0 <= m.delayBufferPos /\ m.delayBufferPos < m.delayBufferSize
         /\ m.delayedSystem =
              IF n <= m.delayBufferSize THEN 0
              ELSE m.systemBuffer[n - m.delayBufferSize]]_vars

\* The write position has gone round the delay line twice and the delayed
\* sample differs from the one just stored.
C30_WrappedTwice ==
  /\ mixerState # NoMixer
  /\ Len(mixerState.systemBuffer) > 2 * mixerState.delayBufferSize
  /\ mixerState.delayedSystem # 0
  /\ mixerState.delayedSystem
       # mixerState.systemBuffer[Len(mixerState.systemBuffer)]

\* C27: a block whose byte length is not a multiple of the sample width is
\* dropped, so the byte length of each accumulator is a multiple of the
\* sample width at all times.
C27_AccumulatorsHoldWholeSamples ==
  \A c \in Capturers :
    /\ BufLen(cap[c].systemAudioBuffer) % SAMPLE_BYTES = 0
    /\ BufLen(cap[c].micAudioBuffer) % SAMPLE_BYTES = 0

\* The orders in which the frames of a collection can be delivered.
Permuted(es) ==
  {[i \in DOMAIN es |-> es[p[i]]] :
     p \in {f \in [DOMAIN es -> DOMAIN es] :
              \A i, j \in DOMAIN es : f[i] = f[j] => i = j}}

\* Where a combined array holds each entry of the collection it was made of.
Placement(es, combined) ==
  {<<es[i], combined.offsets[i]>> : i \in DOMAIN es}

\* C28: the reconstructed buffer holds its entries in the order of their
\* capture times, and it is the buffer that any other order of delivery of
\* the same frames yields: every entry lies at the same offset (entries of
\* distinct capture times, so that the order of the set is determined).
C28_OrderOfDeliveryIrrelevant ==
  rend.combined # NoCombined =>
    /\ \A i, j \in DOMAIN rend.entries :
         rend.entries[i].at < rend.entries[j].at =>
           rend.combined.offsets[i] < rend.combined.offsets[j]
    /\ (\A i, j \in DOMAIN rend.entries :
          rend.entries[i].at = rend.entries[j].at => i = j)
         => \A q \in Permuted(rend.entries) :
              Placement(q, combinedArray(q))
                = Placement(rend.entries, rend.combined)

\* C29: while a session is Idle, after its stop has returned and until the
\* next start, the capturer holds no source handle and no source begun by one
\* of its sessions is open, a source whose asynchronous initialisation
\* completes after the stop included.
C29_NoSourceOpenWhileIdle ==
  \A c \in Capturers :
    SessionState(c) = "Idle" =>
      /\ cap[c].systemStream = 0
      /\ cap[c].micSession = 0
      /\ \A e \in Epochs :
           starts[e].c = c => \A k \in Kinds : src[e][k] # "running"

\* ---------------------------------------------------------------------------
\* One capturing session and the blocks of its sources
\* ---------------------------------------------------------------------------

\* Byte lengths of delivered blocks, a block of two frames among them: the
\* frameworks choose the length of a block, the callbacks take any.
LargeBlockBytes == BlockBytes \cup {2 * BUFFER_SIZE}

\* The session startCaptureWithOptions leaves behind for the options
\* {sessionId: 1, system, mic} once the shareable content has arrived: the
\* sources that were asked for are running.
InitBlocks ==
  /\ \E system \in BOOLEAN, mic \in BOOLEAN :
       /\ system \/ mic
       /\ cap = [c \in Capturers |->
                  IF c = 1
                  THEN [AudioCapturerInit EXCEPT
                          !.constructed = TRUE, !.isCapturing = TRUE,
                          !.sessionId = 1, !.shouldCaptureSystem = system,
                          !.shouldCaptureMic = mic,
                          !.systemStream = IF system THEN 1 ELSE 0,
                          !.micSession = IF mic THEN 1 ELSE 0,
                          !.audioMixer = "ready", !.jsCallback = 1,
                          !.epoch = 1]
                  ELSE AudioCapturerInit]
       /\ src = [e \in Epochs |->
                  [k \in Kinds |->
                    IF e = 1 /\ ((k = "system" /\ system) \/ (k = "mic" /\ mic))
                    THEN "running" ELSE "none"]]
  /\ starts = [e \in Epochs |->
                IF e = 1 THEN [c |-> 1, sessionId |-> 1]
                ELSE [c |-> 0, sessionId |-> 0]]
  /\ tsfn = [e \in Epochs |->
              [state |-> IF e = 1 THEN "live" ELSE "none", queue |-> <<>>]]
  /\ js = JsIdle
  /\ audio = [c \in Capturers |-> AudioIdle]
  /\ crashed = FALSE
  /\ nStarts = 1
  /\ nBlocks = 0
  /\ mixerState = NoMixer
  /\ main = NoMain
  /\ rend = NoRend

\* What the serial audio queue does with a block it has taken on.
AudioQueueStep ==
  \/ \E c \in Capturers : appendBytes(c)
  \/ \E c \in Capturers : processCombinedAudioIfReady(c)
  \/ \E c \in Capturers, dies \in BOOLEAN : mixingPass(c, dies)

\* What the event loop does with a queued frame.
EventLoopStep ==
  \/ \E k \in Epochs : DispatchOne(k)
  \/ audioDataCallback

NextBlocks ==
  \/ \E c \in Capturers, k \in Kinds, n \in LargeBlockBytes :
       didOutputSampleBuffer(c, k, n)
  \/ AudioQueueStep
  \/ EventLoopStep

SpecBlocks == InitBlocks /\ [][NextBlocks]_vars

\* The dispatch queue runs the callback it has begun to its end and the
\* event loop delivers what is queued.
SpecBlocksFair ==
  SpecBlocks /\ WF_vars(AudioQueueStep) /\ WF_vars(EventLoopStep)

\* C31: when a callback of a source has returned, the readiness condition is
\* false, whatever the lengths of the delivered blocks were, blocks longer
\* than a frame included: no complete frame is left unmixed.
C31_NoFrameLeftUnmixed ==
  [][\A c \in Capturers :
       (audio[c].pc # "idle" /\ audio'[c].pc = "idle" /\ ~crashed')
         => ~Ready(c)']_vars

\* A frame of capturer c has been handed to the delivery callback: it is
\* queued on a ThreadSafeFunction of the capturer or is being delivered.
Emitted(c) ==
  \E e \in Epochs :
    /\ starts[e].c = c
    /\ tsfn[e].queue # <<>> \/ (js.pc = "callback" /\ js.e = e)

\* C32: a capturing session started with system = false and mic = true whose
\* microphone has delivered a frame's worth of samples goes on to emit a
\* frame.
C32_MicOnlySessionEmits ==
  \A c \in Capturers :
    (/\ cap[c].isCapturing
     /\ ~cap[c].shouldCaptureSystem /\ cap[c].shouldCaptureMic
     /\ BufLen(cap[c].micAudioBuffer) >= BUFFER_SIZE) ~> Emitted(c)

\* C33: whenever a session is Capturing its delivery callback is live:
\* self.jsCallback is the ThreadSafeFunction that the start request of the
\* session created, and it has not been released. The sessions looked at are
\* those that capture while no call of the addon is under way, a session
\* started while an earlier one was capturing among them.
C33_CapturingCallbackLive ==
  \A c \in Capturers :
    (SessionState(c) = "Capturing" /\ js.pc = "idle") =>
      /\ cap[c].jsCallback = cap[c].epoch
      /\ tsfn[cap[c].epoch].state = "live"

\* C34: at the moment a session enters Capturing both accumulators are
\* empty: no byte that a callback of an earlier session appended is left to
\* be mixed into the first frame of the new session.
C34_AccumulatorsEmptyAtStart ==
  [][\A c \in Capturers :
       (SessionState(c) # "Capturing" /\ SessionState(c)' = "Capturing")
         => /\ cap'[c].systemAudioBuffer = <<>>
            /\ cap'[c].micAudioBuffer = <<>>]_vars

\* C35: a mixing pass works on a mixer that stopCapture has not cleaned up:
\* the mixer is there when the pass starts and stays until the pass has
\* ended, so the cleanup neither overlaps with a pass nor comes before it.
C35_NoPassOnReleasedMixer ==
  \A c \in Capturers :
    audio[c].pc = "mixing" =>
      /\ audio[c].mixer = "ready"
      /\ ~audio[c].raced
      /\ cap[c].audioMixer = "ready"

\* C36: each click that starts a recording issues one start-audio-capture
\* request and each click that stops one issues one stop-audio-capture
\* request, whatever renders and effect runs happen in between: the
\* component of part_003 has never sent more requests than clicks were
\* made, and once everything has settled it has sent exactly as many.
C36_OneRequestPerClick ==
  rend.variant = "part_003" =>
    /\ Len(rend.sent) <= rend.startClicks
    /\ rend.stops <= rend.clicks - rend.startClicks
    /\ (Rendered /\ rend.start = "idle" /\ rend.stop = "idle"
          /\ rend.setup = "idle")
         => /\ Len(rend.sent) = rend.startClicks
            /\ rend.stops = rend.clicks - rend.startClicks

\* C37: a frame accepted into the chunk collection stays in it until the
\* user starts the next recording: in the component of part_003 a step that
\* takes a chunk out of the collection is a click that starts a recording,
\* never a run of the recording setup.
C37_ChunksKeptUntilNextStart ==
  [][(/\ rend.variant = "part_003"
      /\ rend.audioChunks # <<>>
      /\ \/ Len(rend'.audioChunks) < Len(rend.audioChunks)
         \/ SubSeq(rend'.audioChunks, 1, Len(rend.audioChunks))
              # rend.audioChunks)
       => rend'.startClicks = rend.startClicks + 1]_vars

\* C38: a frame that carries the current session id and arrives while the
\* recording is active is appended to the chunk collection, behind the
\* chunks already there: only a session id that does not match makes the
\* component drop a frame, never the time or the number of samples.
C38_MatchingFrameAppended ==
  [][(/\ rend'.frames = rend.frames + 1
      /\ rend.isRecording
      /\ rend'.frame = rend.recordingSessionId)
       => rend'.audioChunks = Append(rend.audioChunks, rend'.frame)]_vars

\* C39: a finished recording is added to the recordings list only if the
\* session id at that moment is the one that was current when its
\* stopRecording began: the recording of a superseded session is not
\* published.
C39_PublishedInItsSession ==
  [][rend'.recordings > rend.recordings
       => rend'.published = rend.recordingSessionId]_vars

\* A stopRecording call has ended with chunks to encode and has published
\* nothing, a later start having taken a new session id meanwhile.
C39_SupersededKeptOut ==
  /\ rend.outcome = "superseded"
  /\ rend.recordings = rend.kept

====
